---- MODULE Spec2Model ----
(***************************************************************************)
(* Model of the session/workspace manager of CliniPrompt:                  *)
(*   backend/src/services/session_manager/__init__.py                      *)
(*   backend/src/models/tutorial_session.py                                *)
(*                                                                         *)
(* Granularity.  Everything a method does while it holds session_lock      *)
(* (create_session, get_session, end_session, mark/unmark) is one action:  *)
(* the RLock makes these regions atomic with respect to each other, and    *)
(* the steps that run outside the lock are separate actions that may       *)
(* interleave anywhere: the validation, the assignment and the metadata    *)
(* write of update_session_state, and the check and the deletion of the    *)
(* deferred clean-up thread.  Directory and metadata calls are taken to    *)
(* succeed.  Time is counted in hours (the unit of session_timeout_hours). *)
(*                                                                         *)
(* save_large_file and get_file_stream hold no session_lock; their steps   *)
(* are the quota check, the acquisition of the file lock (or its timeout), *)
(* the open, runs of the copy loop, and the exception handler, which runs  *)
(* after the lock is released.  File sizes are counted in bytes.           *)
(***************************************************************************)
EXTENDS Integers, Sequences, FiniteSets, TLC

----------------------------------------------------------------------------
(* Bounds of the model *)

MaxIds == 2          \* sessions ever created in Spec
UpdIds == 1          \* sessions ever created in SpecUpdate and SpecRace
CapIds == 6          \* sessions ever created in SpecCap
CapBusy == 1         \* sessions that may be marked busy in SpecCap
NumThreads == 2      \* threads calling update_session_state
MaxTime == 5         \* the clock stops here
MaxTasks == 1        \* deferred clean-up threads ever started
NumFiles == 1        \* file paths used as busy markers
ObjIds == 1          \* TutorialSession objects built in SpecSession
MaxHours == 2        \* hour arguments range over -MaxHours .. MaxHours
IoIds == 1           \* sessions ever created in SpecSave and SpecLock
NumIo == 2           \* threads calling save_large_file and get_file_stream
NumNames == 2        \* file names used in SpecSave
LoopStride == 50     \* iterations of a copy loop taken in one step
QuotaIds == 3        \* sessions held in SpecQuota
QuotaFiles == 16     \* uploaded recordings a session holds at most in SpecQuota
ApiIds == 1          \* sessions ever created in SpecApi
MaxTaskIds == 2      \* processing tasks ever started in SpecApi and SpecStatus
StatusIds == 1       \* sessions ever created in SpecStatus

(* Program constants *)

MAX_CONCURRENT_SESSIONS == 5
MAX_SESSION_STORAGE == 100 * 1024 * 1024
MAX_TOTAL_STORAGE == 1024 * 1024 * 1024
STREAMING_CHUNK_SIZE == 1024 * 1024
SESSION_TIMEOUT_HOURS == 4

\* api/sessions.py line 171: the largest upload that upload_audio accepts
MAX_SIZE == 30 * 1024 * 1024

----------------------------------------------------------------------------
WorkflowState ==
    {"INITIAL", "AUDIO_UPLOADED", "CONTENT_ADDED", "PROCESSING", "COMPLETED", "ERROR"}

Unknown == 0                       \* an id that create_session never returns
Threads == 1 .. NumThreads
Files == 1 .. NumFiles
Services == {"svc"}
IoThreads == 1 .. NumIo
Names == 1 .. NumNames

VARIABLES
    now,               \* datetime.now(), in hours
    sess,              \* the TutorialSession objects ever built, by session id
    active_sessions,   \* keys of self.active_sessions
    session_data,      \* self.session_data: key -> SessionData
    processing_files,  \* self.processing_files: key -> set of busy tags
    workspace,         \* ids whose session directory exists on disk
    metadata,          \* id -> content of metadata/session.json, where it exists
    upd,               \* per thread: its position inside update_session_state
    tasks,             \* the delayed_cleanup threads started so far
    files,             \* path -> content of the files below the workspaces
    locks,             \* the held file locks: key -> the thread that holds it
    io,                \* per thread: its position inside save_large_file or
                       \* get_file_stream, and the outcome of its last call
    last,              \* the create/get/update/end call that returned most
                       \* recently, and its outcome
    api,               \* the request the API router is handling, or the
                       \* response to the request it handled last
    task_ids,          \* how many task ids uuid4 has produced so far
    session_lock,      \* self.session_lock: its owner and recursion count
    reg                \* per thread: its position inside a manager call,
                       \* where the steps under session_lock are told apart,
                       \* and the argument and result of its last call

vars == <<now, sess, active_sessions, session_data, processing_files,
          workspace, metadata, upd, tasks, files, locks, io, last,
          api, task_ids, session_lock, reg>>

----------------------------------------------------------------------------
(* TutorialSession *)

\* create_new(session_timeout_hours=hours): lines 49 and 60-68
create_new_timeout(t, hours) ==
    [state |-> "INITIAL", created_at |-> t, last_updated |-> t,
     expires_at |-> t + hours]

\* extend_expiration(additional_hours=hours), lines 84-85: the deadline is
\* counted from the moment of the call
extend_expiration(s, t, hours) ==
    [s EXCEPT !.expires_at = t + hours, !.last_updated = t]

\* variant: the session is born with its audio already uploaded
create_new_uploaded(t) ==
    [state |-> "AUDIO_UPLOADED", created_at |-> t, last_updated |-> t,
     expires_at |-> t + SESSION_TIMEOUT_HOURS]

create_new(t) ==
    [state |-> "INITIAL", created_at |-> t, last_updated |-> t,
     expires_at |-> t + SESSION_TIMEOUT_HOURS]

\* variant: the deadline is taken an hour late
is_expired_late(s, t) == t > s.expires_at + 1

is_expired(s, t) == t > s.expires_at

valid_transitions(current) ==
    CASE current = "INITIAL"        -> {"AUDIO_UPLOADED", "ERROR"}
      [] current = "AUDIO_UPLOADED" -> {"CONTENT_ADDED", "PROCESSING", "ERROR"}
      [] current = "CONTENT_ADDED"  -> {"PROCESSING", "ERROR"}
      [] current = "PROCESSING"     -> {"COMPLETED", "ERROR"}
      [] current = "COMPLETED"      -> {"INITIAL", "ERROR"}
      [] current = "ERROR"          -> {"PROCESSING", "INITIAL"}
      [] OTHER                      -> {}

\* variant: ERROR is accepted from every state
is_valid_state_transition_lax(current, new) ==
    new \in valid_transitions(current) \cup {"ERROR"}

is_valid_state_transition(current, new) == new \in valid_transitions(current)

to_dict(s) ==
    [state |-> s.state, created_at |-> s.created_at,
     last_updated |-> s.last_updated, expires_at |-> s.expires_at]

----------------------------------------------------------------------------
(* Helpers over the dictionaries *)

Drop(f, k) == [x \in DOMAIN f \ {k} |-> f[x]]

\* self.processing_files[sid] on a defaultdict(set): a missing key is inserted
Touch(pf, sid) == IF sid \in DOMAIN pf THEN pf ELSE pf @@ (sid :> {})

can_cleanup_session(pf, sid) == Touch(pf, sid)[sid] = {}

Tag(file, service) == <<file, service>>

NextId == Len(sess)
CallIds == 0 .. NextId             \* ids a caller can pass: Unknown or created

Result(op, sid, ret, msg) ==
    [op |-> op, sid |-> sid, ret |-> ret, msg |-> msg]

IdleThread == [pc |-> "idle", sid |-> 0, new |-> "-"]

\* the content of a path that holds no file
NoFile == [by |-> 0, len |-> 0, total |-> 0]

\* a thread that has not called save_large_file or get_file_stream yet
IdleIo ==
    [pc |-> "idle", op |-> "-", sid |-> 0, ftype |-> "-", name |-> 0,
     size |-> 0, written |-> 0, exc |-> "-", err |-> "-", had |-> NoFile]

\* session_data.py lines 88-96: a SessionData as its constructor builds it;
\* processing_status is None until start_processing
\* processing_time_seconds is None (line 25) until it is first computed
None == 0 - 1

NoStatus ==
    [task_id |-> 0, status |-> "None", progress |-> 0, start_time |-> 0,
     processing_time_seconds |-> None]

SessionData == [processing_status |-> NoStatus, progress_percentage |-> 0]

\* the router is between two requests, and has answered none so far
NoName == [stem |-> 0, ext |-> "-"]

IdleApi ==
    [pc |-> "idle", op |-> "-", sid |-> 0, filename |-> NoName, ctype |-> "-",
     size |-> 0, code |-> 0, session_state |-> "-", task_id |-> 0]

\* threading.RLock(): no owner
Unlocked == [owner |-> 0, count |-> 0]

\* a thread that is in no call of the manager
IdleReg == [pc |-> "idle", op |-> "-", sid |-> 0, arg |-> 0, ret |-> "-"]

----------------------------------------------------------------------------
Init ==
    /\ now = 0
    /\ sess = <<>>
    /\ active_sessions = {}
    /\ session_data = <<>>
    /\ processing_files = <<>>
    /\ workspace = {}
    /\ metadata = <<>>
    /\ upd = [u \in Threads |-> IdleThread]
    /\ tasks = <<>>
    /\ files = <<>>
    /\ locks = <<>>
    /\ io = [t \in IoThreads |-> IdleIo]
    /\ last = Result("none", 0, "-", "-")
    /\ api = IdleApi
    /\ task_ids = 0
    /\ session_lock = Unlocked
    /\ reg = [t \in Threads |-> IdleReg]

----------------------------------------------------------------------------
(* Workspace store *)

\* _create_session_workspace: mkdir(parents=True, exist_ok=True) of the subtree
create_session_workspace(ws, sid) == ws \cup {sid}

\* shutil.rmtree(session_path) when it exists
rmtree(ws, sid) == ws \ {sid}

\* what rmtree does to the files below the session directory, and to the
\* lock files in its metadata/locks: the names are gone.  A thread that
\* holds one of the locks keeps its descriptor, but the next FileLock on
\* that name creates a new lock file and gets it at once
rmtree_files(fs, sid) == [p \in {q \in DOMAIN fs : q[1] # sid} |-> fs[p]]
rmtree_locks(lk, sid) == [k \in {q \in DOMAIN lk : q[1] # sid} |-> lk[k]]

\* cleanup_session_files(sid, force): the entry of processing_files it touches
\* (with force the busy-set is not consulted) and whether it deletes the tree
cleanup_touches(pf, sid, force) == IF force THEN pf ELSE Touch(pf, sid)

\* variant: the force flag is ignored
cleanup_deletes_unforced(pf, sid, force) == can_cleanup_session(pf, sid)

cleanup_deletes(pf, sid, force) == force \/ can_cleanup_session(pf, sid)

----------------------------------------------------------------------------
(* The clock *)

Tick(step) ==
    /\ now + step <= MaxTime
    /\ now' = now + step
    /\ UNCHANGED <<api, task_ids, session_lock, reg, files, locks, io, sess, active_sessions, session_data, processing_files,
                   workspace, metadata, upd, tasks, last>>

----------------------------------------------------------------------------
(* create_session, lines 66-93 *)

\* variant: the limit is compared with > instead of >=
create_session_off_by_one(maxIds) ==
    IF Cardinality(active_sessions) > MAX_CONCURRENT_SESSIONS
    THEN /\ last' = Result("create", Unknown, "ConcurrencyLimitError", "-")
         /\ UNCHANGED <<api, task_ids, session_lock, reg, files, locks, io, now, sess, active_sessions, session_data,
                        processing_files, workspace, metadata, upd, tasks>>
    ELSE /\ NextId < maxIds
         /\ LET sid == NextId + 1
                session == create_new(now)
            IN  /\ sess' = Append(sess, session)
                /\ workspace' = create_session_workspace(workspace, sid)
                /\ active_sessions' = active_sessions \cup {sid}
                /\ session_data' = (sid :> SessionData) @@ session_data
                /\ metadata' = (sid :> to_dict(session)) @@ metadata
                /\ last' = Result("create", sid, "ok", "-")
         /\ UNCHANGED <<api, task_ids, session_lock, reg, files, locks, io, now, processing_files, upd, tasks>>

create_session(maxIds) ==
    IF Cardinality(active_sessions) >= MAX_CONCURRENT_SESSIONS
    THEN /\ last' = Result("create", Unknown, "ConcurrencyLimitError", "-")
         /\ UNCHANGED <<api, task_ids, session_lock, reg, files, locks, io, now, sess, active_sessions, session_data,
                        processing_files, workspace, metadata, upd, tasks>>
    ELSE /\ NextId < maxIds
         /\ LET sid == NextId + 1
                session == create_new(now)
            IN  /\ sess' = Append(sess, session)
                /\ workspace' = create_session_workspace(workspace, sid)
                /\ active_sessions' = active_sessions \cup {sid}
                /\ session_data' = (sid :> SessionData) @@ session_data
                /\ metadata' = (sid :> to_dict(session)) @@ metadata
                /\ last' = Result("create", sid, "ok", "-")
         /\ UNCHANGED <<api, task_ids, session_lock, reg, files, locks, io, now, processing_files, upd, tasks>>

----------------------------------------------------------------------------
(* end_session, lines 125-149, with cleanup_with_grace_period, lines 266-277, *)
(* and cleanup_session_files, lines 253-264.  It returns True on both paths. *)

\* variant: the entry of active_sessions is not deleted
end_session_body_keeps_entry(sid) ==
    IF ~ can_cleanup_session(processing_files, sid)
    THEN /\ Len(tasks) < MaxTasks
         /\ tasks' = Append(tasks, [sid |-> sid, pc |-> "sleep"])
         /\ processing_files' = Touch(processing_files, sid)
         /\ UNCHANGED <<active_sessions, session_data, workspace, metadata, files, locks>>
    ELSE LET pf == Drop(Touch(processing_files, sid), sid)
         IN  /\ session_data' = Drop(session_data, sid)
             /\ processing_files' = cleanup_touches(pf, sid, FALSE)
             /\ workspace' = rmtree(workspace, sid)
             /\ metadata' = Drop(metadata, sid)
             /\ files' = rmtree_files(files, sid)
             /\ locks' = rmtree_locks(locks, sid)
             /\ UNCHANGED <<active_sessions, tasks>>

\* variant: a busy session is torn down at once instead of being deferred
end_session_body_sync(sid) ==
    LET pf == Drop(Touch(processing_files, sid), sid)
    IN  /\ active_sessions' = active_sessions \ {sid}
        /\ session_data' = Drop(session_data, sid)
        /\ processing_files' = cleanup_touches(pf, sid, FALSE)
        /\ workspace' = rmtree(workspace, sid)
        /\ metadata' = Drop(metadata, sid)
        /\ files' = rmtree_files(files, sid)
        /\ locks' = rmtree_locks(locks, sid)
        /\ UNCHANGED tasks

end_session_body(sid) ==
    IF ~ can_cleanup_session(processing_files, sid)
    THEN \* busy: cleanup_with_grace_period starts a delayed_cleanup thread
         /\ Len(tasks) < MaxTasks
         /\ tasks' = Append(tasks, [sid |-> sid, pc |-> "sleep"])
         /\ processing_files' = Touch(processing_files, sid)
         /\ UNCHANGED <<active_sessions, session_data, workspace, metadata, files, locks>>
    ELSE \* the three del statements, then cleanup_session_files(sid)
         LET pf == Drop(Touch(processing_files, sid), sid)
         IN  /\ active_sessions' = active_sessions \ {sid}
             /\ session_data' = Drop(session_data, sid)
             /\ processing_files' = cleanup_touches(pf, sid, FALSE)
             /\ IF cleanup_deletes(pf, sid, FALSE)
                THEN /\ workspace' = rmtree(workspace, sid)
                     /\ metadata' = Drop(metadata, sid)
                     /\ files' = rmtree_files(files, sid)
                     /\ locks' = rmtree_locks(locks, sid)
                ELSE UNCHANGED <<workspace, metadata, files, locks>>
             /\ UNCHANGED tasks

end_session(sid) ==
    /\ end_session_body(sid)
    /\ last' = Result("end", sid, "True", "-")
    /\ UNCHANGED <<api, task_ids, session_lock, reg, io, now, sess, upd>>

----------------------------------------------------------------------------
(* get_session, lines 95-110.  _load_session_from_storage always answers   *)
(* False (line 326), so an id that is not a key is not found.              *)

\* the outcome of get_session(sid): the session, or the message of the
\* SessionNotFoundError it raises
get_session_outcome(sid) ==
    IF sid \notin active_sessions THEN "not found"
    ELSE IF is_expired(sess[sid], now) THEN "has expired"
    ELSE "session"

\* what get_session(sid) does to the manager: end_session on an expired session
get_session_body(sid) ==
    IF get_session_outcome(sid) = "has expired"
    THEN end_session_body(sid)
    ELSE UNCHANGED <<active_sessions, session_data, processing_files,
                     workspace, metadata, tasks, files, locks>>

get_session(sid) ==
    /\ get_session_body(sid)
    /\ last' = IF get_session_outcome(sid) = "session"
               THEN Result("get", sid, "session", "-")
               ELSE Result("get", sid, "SessionNotFoundError",
                           get_session_outcome(sid))
    /\ UNCHANGED <<api, task_ids, session_lock, reg, io, now, sess, upd>>

----------------------------------------------------------------------------
(* get_session_data, lines 279-283: an id that is not a key gets a new     *)
(* SessionData; session_lock is not taken and active_sessions is not read  *)

get_session_data(sid) ==
    /\ session_data' = IF sid \in DOMAIN session_data THEN session_data
                       ELSE (sid :> SessionData) @@ session_data
    /\ last' = Result("data", sid, "SessionData", "-")
    /\ UNCHANGED <<api, task_ids, session_lock, reg, files, locks, io, now, sess,
                   active_sessions, processing_files, workspace, metadata, upd, tasks>>

----------------------------------------------------------------------------
(* mark_file_processing / unmark_file_processing, lines 222-232; both     *)
(* always return True                                                      *)

mark_file_processing(sid, file, service) ==
    /\ processing_files' =
         [Touch(processing_files, sid) EXCEPT ![sid] = @ \cup {Tag(file, service)}]
    /\ UNCHANGED <<api, task_ids, session_lock, reg, files, locks, io, now, sess, active_sessions, session_data, workspace,
                   metadata, upd, tasks, last>>

unmark_file_processing(sid, file, service) ==
    /\ processing_files' =
         [Touch(processing_files, sid) EXCEPT ![sid] = @ \ {Tag(file, service)}]
    /\ UNCHANGED <<api, task_ids, session_lock, reg, files, locks, io, now, sess, active_sessions, session_data, workspace,
                   metadata, upd, tasks, last>>

----------------------------------------------------------------------------
(* update_session_state, lines 112-123, with TutorialSession.update_state, *)
(* lines 70-76.  Only the get_session call holds session_lock; the         *)
(* validation, the two assignments and the metadata write run unlocked.    *)

\* line 115: session = self.get_session(session_id); SessionNotFoundError
\* is caught and the call returns False
update_session_state_get(u, sid, new) ==
    /\ upd[u].pc = "idle"
    /\ get_session_body(sid)
    /\ IF get_session_outcome(sid) = "session"
       THEN /\ upd' = [upd EXCEPT ![u] = [pc |-> "validate", sid |-> sid, new |-> new]]
            /\ UNCHANGED last
       ELSE /\ last' = Result("update", sid, "False", get_session_outcome(sid))
            /\ UNCHANGED upd
    /\ UNCHANGED <<api, task_ids, session_lock, reg, io, now, sess>>

\* variant: last_updated is written before the transition is validated
update_state_validate_eager(u) ==
    /\ upd[u].pc = "validate"
    /\ sess' = [sess EXCEPT ![upd[u].sid].last_updated = now]
    /\ IF is_valid_state_transition(sess[upd[u].sid].state, upd[u].new)
       THEN /\ upd' = [upd EXCEPT ![u].pc = "assign"]
            /\ UNCHANGED last
       ELSE /\ upd' = [upd EXCEPT ![u] = IdleThread]
            /\ last' = Result("update", upd[u].sid, "False", "ValueError")
    /\ UNCHANGED <<api, task_ids, session_lock, reg, files, locks, io, now, active_sessions, session_data, processing_files,
                   workspace, metadata, tasks>>

\* tutorial_session.py line 72: the ValueError is caught, the call returns False
update_state_validate(u) ==
    /\ upd[u].pc = "validate"
    /\ IF is_valid_state_transition(sess[upd[u].sid].state, upd[u].new)
       THEN /\ upd' = [upd EXCEPT ![u].pc = "assign"]
            /\ UNCHANGED last
       ELSE /\ upd' = [upd EXCEPT ![u] = IdleThread]
            /\ last' = Result("update", upd[u].sid, "False", "ValueError")
    /\ UNCHANGED <<api, task_ids, session_lock, reg, files, locks, io, now, sess, active_sessions, session_data, processing_files,
                   workspace, metadata, tasks>>

\* tutorial_session.py lines 75-76
update_state_assign(u) ==
    /\ upd[u].pc = "assign"
    /\ sess' = [sess EXCEPT ![upd[u].sid].state = upd[u].new,
                            ![upd[u].sid].last_updated = now]
    /\ upd' = [upd EXCEPT ![u].pc = "save"]
    /\ UNCHANGED <<api, task_ids, session_lock, reg, files, locks, io, now, active_sessions, session_data, processing_files,
                   workspace, metadata, tasks, last>>

\* _save_session_metadata, lines 304-311: mkdir(parents=True) of the metadata
\* directory, then the dump of to_dict(); then return True
update_session_state_save(u) ==
    /\ upd[u].pc = "save"
    /\ workspace' = workspace \cup {upd[u].sid}
    /\ metadata' = (upd[u].sid :> to_dict(sess[upd[u].sid])) @@ Drop(metadata, upd[u].sid)
    /\ upd' = [upd EXCEPT ![u] = IdleThread]
    /\ last' = Result("update", upd[u].sid, "True", "-")
    /\ UNCHANGED <<api, task_ids, session_lock, reg, files, locks, io, now, sess, active_sessions, session_data, processing_files, tasks>>

----------------------------------------------------------------------------
(* delayed_cleanup, lines 268-272: the thread started by                    *)
(* cleanup_with_grace_period.  Neither step holds session_lock.             *)

\* variant: a thread that found the busy-set non-empty evaluates
\* can_cleanup_session again later
delayed_cleanup_check_retry(i) ==
    /\ i \in DOMAIN tasks
    /\ tasks[i].pc \in {"sleep", "abandoned"}
    /\ tasks' = [tasks EXCEPT ![i].pc =
                    IF can_cleanup_session(processing_files, tasks[i].sid)
                    THEN "delete" ELSE "abandoned"]
    /\ processing_files' = Touch(processing_files, tasks[i].sid)
    /\ UNCHANGED <<api, task_ids, session_lock, reg, files, locks, io, now, sess, active_sessions, session_data, workspace,
                   metadata, upd, last>>

\* time.sleep returns and can_cleanup_session is evaluated once
delayed_cleanup_check(i) ==
    /\ i \in DOMAIN tasks
    /\ tasks[i].pc = "sleep"
    /\ tasks' = [tasks EXCEPT ![i].pc =
                    IF can_cleanup_session(processing_files, tasks[i].sid)
                    THEN "delete" ELSE "abandoned"]
    /\ processing_files' = Touch(processing_files, tasks[i].sid)
    /\ UNCHANGED <<api, task_ids, session_lock, reg, files, locks, io, now, sess, active_sessions, session_data, workspace,
                   metadata, upd, last>>

\* cleanup_session_files(session_id, force=True)
delayed_cleanup_delete(i) ==
    /\ i \in DOMAIN tasks
    /\ tasks[i].pc = "delete"
    /\ tasks' = [tasks EXCEPT ![i].pc = "done"]
    /\ processing_files' = cleanup_touches(processing_files, tasks[i].sid, TRUE)
    /\ IF cleanup_deletes(processing_files, tasks[i].sid, TRUE)
       THEN /\ workspace' = rmtree(workspace, tasks[i].sid)
            /\ metadata' = Drop(metadata, tasks[i].sid)
            /\ files' = rmtree_files(files, tasks[i].sid)
            /\ locks' = rmtree_locks(locks, tasks[i].sid)
       ELSE UNCHANGED <<workspace, metadata, files, locks>>
    /\ UNCHANGED <<api, task_ids, session_lock, reg, io, now, sess, active_sessions, session_data, upd, last>>

----------------------------------------------------------------------------
(* create_session, get_session and end_session once more, step by step:   *)
(* the with self.session_lock block is entered, and each filesystem call   *)
(* made inside it is a step of its own.  reg[t].pc names the filesystem    *)
(* call that thread t is making: "mkdir" (_create_session_workspace),      *)
(* "save" (_save_session_metadata), "load" (_load_session_from_storage),   *)
(* "rmtree" (cleanup_session_files).                                       *)

\* threading.RLock: acquire by thread t (the owner may acquire again), and
\* release
rlock_acquire(l, t) == [owner |-> t, count |-> l.count + 1]

\* variant: leaving the with block keeps the lock
rlock_release_kept(l) == l

rlock_release(l) == IF l.count <= 1 THEN Unlocked ELSE [l EXCEPT !.count = @ - 1]

\* the call of thread t is over, with this result
Returned(op, sid, ret) == [pc |-> "idle", op |-> op, sid |-> sid, arg |-> 0, ret |-> ret]

\* lines 68-77: the lock is taken, the limit is checked, the session is built
create_session_enter(t, maxIds) ==
    /\ reg[t].pc = "idle"
    /\ session_lock.owner = 0
    /\ IF Cardinality(active_sessions) >= MAX_CONCURRENT_SESSIONS
       THEN /\ reg' = [reg EXCEPT ![t] =
                         Returned("create", Unknown, "ConcurrencyLimitError")]
            /\ UNCHANGED <<sess, session_lock>>
       ELSE /\ NextId < maxIds
            /\ sess' = Append(sess, create_new(now))
            /\ session_lock' = rlock_acquire(session_lock, t)
            /\ reg' = [reg EXCEPT ![t] =
                         [IdleReg EXCEPT !.pc = "mkdir", !.op = "create",
                                         !.sid = NextId + 1]]
    /\ UNCHANGED <<api, task_ids, files, locks, io, now, active_sessions, session_data,
                   processing_files, workspace, metadata, upd, tasks, last>>

\* lines 80-88: the directories are made, then the two entries are stored
create_session_mkdir(t) ==
    /\ reg[t].pc = "mkdir"
    /\ workspace' = create_session_workspace(workspace, reg[t].sid)
    /\ active_sessions' = active_sessions \cup {reg[t].sid}
    /\ session_data' = (reg[t].sid :> SessionData) @@ session_data
    /\ reg' = [reg EXCEPT ![t].pc = "save"]
    /\ UNCHANGED <<api, task_ids, session_lock, files, locks, io, now, sess,
                   processing_files, metadata, upd, tasks, last>>

\* lines 91-93: the record is written, the id is returned, the lock released
create_session_save(t) ==
    /\ reg[t].pc = "save"
    /\ metadata' = (reg[t].sid :> to_dict(sess[reg[t].sid])) @@ metadata
    /\ session_lock' = rlock_release(session_lock)
    /\ reg' = [reg EXCEPT ![t] = Returned("create", reg[t].sid, "ok")]
    /\ UNCHANGED <<api, task_ids, files, locks, io, now, sess, active_sessions,
                   session_data, processing_files, workspace, upd, tasks, last>>

\* lines 128-143, inside the lock: a busy session gets its delayed_cleanup
\* thread and nothing else happens; otherwise the three entries are deleted
\* and cleanup_session_files is the next call
end_session_dels(t, op, sid) ==
    IF ~ can_cleanup_session(processing_files, sid)
    THEN /\ Len(tasks) < MaxTasks
         /\ tasks' = Append(tasks, [sid |-> sid, pc |-> "sleep"])
         /\ processing_files' = Touch(processing_files, sid)
         /\ reg' = [reg EXCEPT ![t] =
                      Returned(op, sid, IF op = "end" THEN "True"
                                        ELSE "SessionNotFoundError")]
         /\ UNCHANGED <<active_sessions, session_data, session_lock>>
    ELSE /\ active_sessions' = active_sessions \ {sid}
         /\ session_data' = Drop(session_data, sid)
         /\ processing_files' = Drop(Touch(processing_files, sid), sid)
         /\ session_lock' = [owner |-> t, count |-> IF op = "end" THEN 1 ELSE 2]
         /\ reg' = [reg EXCEPT ![t] =
                      [IdleReg EXCEPT !.pc = "rmtree", !.op = op, !.sid = sid]]
         /\ UNCHANGED tasks

\* line 127
end_session_enter(t, sid) ==
    /\ reg[t].pc = "idle"
    /\ session_lock.owner = 0
    /\ end_session_dels(t, "end", sid)
    /\ UNCHANGED <<api, task_ids, files, locks, io, now, sess, workspace, metadata,
                   upd, last>>

\* lines 97-110: an id that is not a key is looked up on disk; an expired
\* session is ended, which takes the lock a second time
get_session_enter(t, sid) ==
    /\ reg[t].pc = "idle"
    /\ session_lock.owner = 0
    /\ IF sid \notin active_sessions
       THEN /\ session_lock' = rlock_acquire(session_lock, t)
            /\ reg' = [reg EXCEPT ![t] =
                         [IdleReg EXCEPT !.pc = "load", !.op = "get", !.sid = sid]]
            /\ UNCHANGED <<active_sessions, session_data, processing_files, tasks>>
       ELSE IF is_expired(sess[sid], now)
            THEN end_session_dels(t, "get", sid)
            ELSE /\ reg' = [reg EXCEPT ![t] = Returned("get", sid, "session")]
                 /\ UNCHANGED <<session_lock, active_sessions, session_data,
                                processing_files, tasks>>
    /\ UNCHANGED <<api, task_ids, files, locks, io, now, sess, workspace, metadata,
                   upd, last>>

\* _load_session_from_storage, lines 313-329: the record is looked for and
\* False is returned; line 101 raises SessionNotFoundError
get_session_load(t) ==
    /\ reg[t].pc = "load"
    /\ session_lock' = rlock_release(session_lock)
    /\ reg' = [reg EXCEPT ![t] = Returned("get", reg[t].sid, "SessionNotFoundError")]
    /\ UNCHANGED <<api, task_ids, files, locks, io, now, sess, active_sessions,
                   session_data, processing_files, workspace, metadata, upd, tasks,
                   last>>

\* line 146, cleanup_session_files(session_id): the tree is removed; then
\* end_session returns, get_session raises, and the lock is released
end_session_rmtree(t) ==
    /\ reg[t].pc = "rmtree"
    /\ processing_files' = cleanup_touches(processing_files, reg[t].sid, FALSE)
    /\ IF cleanup_deletes(processing_files, reg[t].sid, FALSE)
       THEN /\ workspace' = rmtree(workspace, reg[t].sid)
            /\ metadata' = Drop(metadata, reg[t].sid)
            /\ files' = rmtree_files(files, reg[t].sid)
            /\ locks' = rmtree_locks(locks, reg[t].sid)
       ELSE UNCHANGED <<workspace, metadata, files, locks>>
    /\ session_lock' = Unlocked
    /\ reg' = [reg EXCEPT ![t] =
                 Returned(reg[t].op, reg[t].sid,
                          IF reg[t].op = "get" THEN "SessionNotFoundError"
                          ELSE IF cleanup_deletes(processing_files, reg[t].sid, FALSE)
                               THEN "True" ELSE "False")]
    /\ UNCHANGED <<api, task_ids, io, now, sess, active_sessions,
                   session_data, upd, tasks, last>>

\* lines 80 and 91 when the filesystem fails: the OSError of mkdir or of
\* the write of session.json leaves the with block, which releases the lock.
\* At line 91 the two entries of the tables have been stored already
create_session_fails(t) ==
    /\ reg[t].pc \in {"mkdir", "save"}
    /\ session_lock' = rlock_release(session_lock)
    /\ reg' = [reg EXCEPT ![t] = Returned("create", reg[t].sid, "OSError")]
    /\ UNCHANGED <<api, task_ids, files, locks, io, now, sess, active_sessions,
                   session_data, processing_files, workspace, metadata, upd, tasks,
                   last>>

\* lines 259-264 and 148-149 when shutil.rmtree fails: SessionStorageError
\* leaves the with block of end_session and, under get_session, the outer
\* one as well
end_session_rmtree_fails(t) ==
    /\ reg[t].pc = "rmtree"
    /\ processing_files' = cleanup_touches(processing_files, reg[t].sid, FALSE)
    /\ session_lock' = Unlocked
    /\ reg' = [reg EXCEPT ![t] = Returned(reg[t].op, reg[t].sid, "SessionStorageError")]
    /\ UNCHANGED <<api, task_ids, files, locks, io, now, sess, active_sessions,
                   session_data, workspace, metadata, upd, tasks, last>>

----------------------------------------------------------------------------
(* Files of the workspaces.  A file is known by its path (session, file    *)
(* type, file name); its content is the first len bytes of the stream of   *)
(* total bytes that thread `by' is writing or wrote.  Sizes are in bytes.  *)

FileTypes == {"audio/original"}

Content(fs, path) == IF path \in DOMAIN fs THEN fs[path] ELSE NoFile

\* Path.unlink / os.remove of an existing path
unlink(fs, path) == Drop(fs, path)

\* the size of metadata/session.json written by _save_session_metadata
\* (json.dump of to_dict() with indent=2: a few hundred bytes)
SESSION_JSON_SIZE == 400

RECURSIVE tree_size(_, _)
tree_size(fs, paths) ==
    IF paths = {} THEN 0
    ELSE LET p == CHOOSE q \in paths : TRUE
         IN  fs[p].len + tree_size(fs, paths \ {p})

\* _get_session_storage_size, lines 331-341: every file below the session
\* directory counts, the metadata record included (lock files are empty)
get_session_storage_size(sid) ==
    IF sid \notin workspace THEN 0
    ELSE tree_size(files, {p \in DOMAIN files : p[1] = sid})
         + (IF sid \in DOMAIN metadata THEN SESSION_JSON_SIZE ELSE 0)

\* _get_total_storage_size, lines 343-352
get_total_storage_size ==
    tree_size(files, DOMAIN files) + SESSION_JSON_SIZE * Cardinality(DOMAIN metadata)

\* _estimate_stream_size, lines 354-357
estimate_stream_size(size) == 0

\* variant: the two comparisons refuse a usage equal to the ceiling
check_storage_quota_strict(sid, file_size) ==
    IF get_session_storage_size(sid) + file_size >= MAX_SESSION_STORAGE THEN FALSE
    ELSE IF get_total_storage_size + file_size >= MAX_TOTAL_STORAGE
         THEN get_total_storage_size + file_size < MAX_TOTAL_STORAGE
         ELSE TRUE

\* check_storage_quota, lines 238-251; _cleanup_oldest_sessions (lines
\* 370-373) frees nothing, so the second measurement equals the first
check_storage_quota(sid, file_size) ==
    IF get_session_storage_size(sid) + file_size > MAX_SESSION_STORAGE THEN FALSE
    ELSE IF get_total_storage_size + file_size > MAX_TOTAL_STORAGE
         THEN get_total_storage_size + file_size <= MAX_TOTAL_STORAGE
         ELSE TRUE

\* a call of check_storage_quota by thread t.  It only measures: on a
\* global overflow _cleanup_oldest_sessions is called and removes nothing
check_storage_quota_call(t, sid, file_size) ==
    /\ reg' = [reg EXCEPT ![t] =
                 [pc |-> "idle", op |-> "check_storage_quota", sid |-> sid,
                  arg |-> file_size,
                  ret |-> IF check_storage_quota(sid, file_size)
                          THEN "True" ELSE "False"]]
    /\ UNCHANGED <<api, task_ids, session_lock, files, locks, io, now, sess,
                   active_sessions, session_data, processing_files, workspace,
                   metadata, upd, tasks, last>>

----------------------------------------------------------------------------
(* File locks: FileLock(lock_path, timeout=30) on                          *)
(* <session>/metadata/locks/<file name>.lock.  The key of a lock is the    *)
(* session and the file name; the file type is not part of it.  A thread   *)
(* that waits for a held lock either gets it when it is released or gives  *)
(* up after the timeout with filelock.Timeout.                             *)

\* variant: leaving the with block keeps the lock
lock_release_leaked(lk, key, t) == lk

\* thread t leaves the with block: it closes its descriptor.  The lock file
\* at the path is released by that only if it is the one t holds
lock_release(lk, key, t) ==
    IF key \in DOMAIN lk /\ lk[key] = t THEN Drop(lk, key) ELSE lk

lock_acquire(lk, key, t) == (key :> t) @@ lk

\* a thread that is not inside a call
IoFree == {"idle", "returned", "raised"}

FilePath(t) == <<io[t].sid, io[t].ftype, io[t].name>>

\* variant: one lock for all the files of a session
LockKey_per_session(t) == <<io[t].sid, 0>>

\* lines 178 and 364-368: metadata/locks/<file name>.lock below the session
LockKey(t) == <<io[t].sid, io[t].name>>

Min(a, b) == IF a < b THEN a ELSE b

\* the record of a call that has ended: its arguments and how it ended
Ended(call, pc, exc, err) ==
    [IdleIo EXCEPT !.pc = pc, !.op = call.op, !.sid = call.sid,
                   !.ftype = call.ftype, !.name = call.name,
                   !.size = call.size, !.exc = exc, !.err = err]

----------------------------------------------------------------------------
(* save_large_file, lines 161-204.  The steps of one call: the quota check *)
(* and the mkdir of the lock directory; the wait for the lock; the open    *)
(* that creates or truncates the destination; the copy loop; the handler   *)
(* of `except Exception', which runs after the with block has released the *)
(* lock.  The field `had' remembers what the destination held when the     *)
(* call began.                                                             *)

\* lines 169-179
save_large_file_check(t, sid, ftype, name, size) ==
    /\ io[t].pc \in IoFree
    /\ LET call == [IdleIo EXCEPT !.op = "save", !.sid = sid, !.ftype = ftype,
                                  !.name = name, !.size = size,
                                  !.had = Content(files, <<sid, ftype, name>>)]
       IN  IF ~ check_storage_quota(sid, estimate_stream_size(size))
           THEN /\ io' = [io EXCEPT ![t] =
                            Ended(call, "raised", "-", "StorageQuotaExceededError")]
                /\ UNCHANGED workspace
           ELSE /\ io' = [io EXCEPT ![t] = [call EXCEPT !.pc = "lock"]]
                /\ workspace' = workspace \cup {sid}
    /\ UNCHANGED <<api, task_ids, session_lock, reg, files, locks, now, sess, active_sessions, session_data,
                   processing_files, metadata, upd, tasks, last>>

\* line 182: the lock is free and is taken.  A FileLock that finds the
\* directory of its lock file missing creates it (filelock from 3.12 on)
save_lock_acquire(t) ==
    /\ io[t].pc = "lock"
    /\ LockKey(t) \notin DOMAIN locks
    /\ locks' = lock_acquire(locks, LockKey(t), t)
    /\ workspace' = workspace \cup {io[t].sid}
    /\ io' = [io EXCEPT ![t].pc = "open"]
    /\ UNCHANGED <<api, task_ids, session_lock, reg, files, now, sess, active_sessions, session_data,
                   processing_files, metadata, upd, tasks, last>>

\* line 182, when the directory of the lock file has been removed since
\* line 179 and the FileLock does not create it: os.open fails
save_lock_no_dir(t) ==
    /\ io[t].pc = "lock"
    /\ io[t].sid \notin workspace
    /\ io' = [io EXCEPT ![t].pc = "except", ![t].exc = "FileNotFoundError"]
    /\ UNCHANGED <<api, task_ids, session_lock, reg, files, locks, now, sess, active_sessions, session_data,
                   processing_files, workspace, metadata, upd, tasks, last>>

\* line 182: the lock stays held for 30 seconds, FileLock raises Timeout
save_lock_timeout(t) ==
    /\ io[t].pc = "lock"
    /\ LockKey(t) \in DOMAIN locks
    /\ io' = [io EXCEPT ![t].pc = "except", ![t].exc = "Timeout"]
    /\ UNCHANGED <<api, task_ids, session_lock, reg, files, locks, now, sess, active_sessions, session_data,
                   processing_files, workspace, metadata, upd, tasks, last>>

\* lines 183-186: mkdir(parents=True) of the directory of the file, then
\* open(file_path, 'wb'), which creates the file or truncates it
save_open(t) ==
    /\ io[t].pc = "open"
    /\ files' = (FilePath(t) :> [by |-> t, len |-> 0, total |-> io[t].size])
                    @@ unlink(files, FilePath(t))
    /\ io' = [io EXCEPT ![t].pc = "write", ![t].written = 0]
    /\ workspace' = workspace \cup {io[t].sid}
    /\ UNCHANGED <<api, task_ids, session_lock, reg, locks, now, sess, active_sessions, session_data,
                   processing_files, metadata, upd, tasks, last>>

\* lines 187-197, at most k iterations of the loop from total_written =
\* written: it ends at "eof" when read() returns nothing, at "over" when
\* total_written has passed the ceiling, and is still at "loop" otherwise
RECURSIVE copy_loop(_, _, _)
copy_loop(written, size, k) ==
    IF written = size THEN [written |-> written, at |-> "eof"]
    ELSE LET w == written + Min(STREAMING_CHUNK_SIZE, size - written)
         IN  IF w > MAX_SESSION_STORAGE THEN [written |-> w, at |-> "over"]
             ELSE IF k <= 1 THEN [written |-> w, at |-> "loop"]
             ELSE copy_loop(w, size, k - 1)

\* the file that f.write reaches is the one at the path as long as nobody
\* has unlinked it; after that the bytes go to a file without a name
Linked(t) == FilePath(t) \in DOMAIN files /\ files[FilePath(t)].by = t

\* lines 187-197: up to LoopStride iterations of the copy loop.  At "eof"
\* both with blocks are left and the path is returned; at "over" the path
\* is unlinked (line 196; FileNotFoundError when it is gone already) and
\* the exception leaves the with blocks, which releases the lock, on its
\* way to the handler
save_write(t) ==
    /\ io[t].pc = "write"
    /\ LET r == copy_loop(io[t].written, io[t].size, LoopStride)
           grown == IF Linked(t)
                    THEN [files EXCEPT ![FilePath(t)].len = r.written]
                    ELSE files
       IN  CASE r.at = "loop" ->
                  /\ files' = grown
                  /\ io' = [io EXCEPT ![t].written = r.written]
                  /\ UNCHANGED locks
             [] r.at = "eof" ->
                  /\ files' = grown
                  /\ io' = [io EXCEPT ![t] = Ended(@, "returned", "-", "-")]
                  /\ locks' = lock_release(locks, LockKey(t), t)
             [] r.at = "over" ->
                  /\ files' = unlink(grown, FilePath(t))
                  /\ io' = [io EXCEPT ![t].written = r.written, ![t].pc = "except",
                                      ![t].exc = IF FilePath(t) \in DOMAIN files
                                                 THEN "StorageQuotaExceededError"
                                                 ELSE "FileNotFoundError"]
                  /\ locks' = lock_release(locks, LockKey(t), t)
    /\ UNCHANGED <<api, task_ids, session_lock, reg, now, sess, active_sessions, session_data,
                   processing_files, workspace, metadata, upd, tasks, last>>

\* line 192: f.write fails (an OSError of the disk); the exception leaves
\* the with blocks and reaches the handler
save_write_error(t) ==
    /\ io[t].pc = "write"
    /\ io[t].written < io[t].size
    /\ locks' = lock_release(locks, LockKey(t), t)
    /\ io' = [io EXCEPT ![t].pc = "except", ![t].exc = "OSError"]
    /\ UNCHANGED <<api, task_ids, session_lock, reg, files, now, sess, active_sessions, session_data,
                   processing_files, workspace, metadata, upd, tasks, last>>

\* variant: the handler leaves the destination as it finds it
save_except_keeps(t) ==
    /\ io[t].pc = "except"
    /\ io' = [io EXCEPT ![t] = Ended(@, "raised", @.exc, "SessionStorageError")]
    /\ UNCHANGED <<api, task_ids, session_lock, reg, files, locks, now, sess, active_sessions, session_data,
                   processing_files, workspace, metadata, upd, tasks, last>>

\* lines 199-202: whatever is at the destination path is unlinked and the
\* exception is replaced by SessionStorageError
save_except(t) ==
    /\ io[t].pc = "except"
    /\ files' = unlink(files, FilePath(t))
    /\ io' = [io EXCEPT ![t] = Ended(@, "raised", @.exc, "SessionStorageError")]
    /\ UNCHANGED <<api, task_ids, session_lock, reg, locks, now, sess, active_sessions, session_data,
                   processing_files, workspace, metadata, upd, tasks, last>>

----------------------------------------------------------------------------
(* get_file_stream, lines 206-220: a generator.  Its body starts with the  *)
(* consumer's first next(): the wait for the lock, the open, then one      *)
(* chunk per next() until the file is exhausted.                           *)

\* lines 208-209 and the first next()
get_file_stream_start(t, sid, ftype, name) ==
    /\ io[t].pc \in IoFree
    /\ io' = [io EXCEPT ![t] =
                [IdleIo EXCEPT !.op = "read", !.sid = sid, !.ftype = ftype,
                               !.name = name, !.pc = "rlock"]]
    /\ UNCHANGED <<api, task_ids, session_lock, reg, files, locks, now, sess, active_sessions, session_data,
                   processing_files, workspace, metadata, upd, tasks, last>>

\* line 212: the lock is free and is taken (the FileLock creates a missing
\* directory, as in save_large_file)
read_lock_acquire(t) ==
    /\ io[t].pc = "rlock"
    /\ LockKey(t) \notin DOMAIN locks
    /\ locks' = lock_acquire(locks, LockKey(t), t)
    /\ workspace' = workspace \cup {io[t].sid}
    /\ io' = [io EXCEPT ![t].pc = "ropen"]
    /\ UNCHANGED <<api, task_ids, session_lock, reg, files, now, sess, active_sessions, session_data,
                   processing_files, metadata, upd, tasks, last>>

\* line 212, when the directory of the lock file does not exist and the
\* FileLock does not create it: os.open fails, SessionStorageError
read_lock_no_dir(t) ==
    /\ io[t].pc = "rlock"
    /\ io[t].sid \notin workspace
    /\ io' = [io EXCEPT ![t] =
                Ended(@, "raised", "FileNotFoundError", "SessionStorageError")]
    /\ UNCHANGED <<api, task_ids, session_lock, reg, files, locks, now, sess, active_sessions, session_data,
                   processing_files, workspace, metadata, upd, tasks, last>>

\* lines 212 and 219-220: Timeout, replaced by SessionStorageError
read_lock_timeout(t) ==
    /\ io[t].pc = "rlock"
    /\ LockKey(t) \in DOMAIN locks
    /\ io' = [io EXCEPT ![t] = Ended(@, "raised", "Timeout", "SessionStorageError")]
    /\ UNCHANGED <<api, task_ids, session_lock, reg, files, locks, now, sess, active_sessions, session_data,
                   processing_files, workspace, metadata, upd, tasks, last>>

\* line 213: open(full_path, 'rb'); a missing file raises FileNotFoundError,
\* which leaves the with block and is replaced by SessionStorageError
read_open(t) ==
    /\ io[t].pc = "ropen"
    /\ IF FilePath(t) \in DOMAIN files
       THEN /\ io' = [io EXCEPT ![t].pc = "read", ![t].had = files[FilePath(t)],
                                ![t].size = files[FilePath(t)].len]
            /\ UNCHANGED locks
       ELSE /\ io' = [io EXCEPT ![t] =
                         Ended(@, "raised", "FileNotFoundError", "SessionStorageError")]
            /\ locks' = lock_release(locks, LockKey(t), t)
    /\ UNCHANGED <<api, task_ids, session_lock, reg, files, now, sess, active_sessions, session_data,
                   processing_files, workspace, metadata, upd, tasks, last>>

\* lines 214-218: up to LoopStride chunks are yielded; when read() returns
\* nothing the generator is exhausted and the with blocks are left
read_chunks(t) ==
    /\ io[t].pc = "read"
    /\ IF io[t].written = io[t].size
       THEN /\ io' = [io EXCEPT ![t] = Ended(@, "returned", "-", "-")]
            /\ locks' = lock_release(locks, LockKey(t), t)
       ELSE /\ io' = [io EXCEPT ![t].written =
                         Min(io[t].size, @ + LoopStride * STREAMING_CHUNK_SIZE)]
            /\ UNCHANGED locks
    /\ UNCHANGED <<api, task_ids, session_lock, reg, files, now, sess, active_sessions, session_data,
                   processing_files, workspace, metadata, upd, tasks, last>>

----------------------------------------------------------------------------
(* ProcessingStatus and SessionData, models/session_data.py.  The clock    *)
(* counts hours; processing_time_seconds is in seconds.                    *)

Max(a, b) == IF a > b THEN a ELSE b

\* lines 28-37
ProcessingStatus_create_new(task_id, t) ==
    [task_id |-> task_id, status |-> "pending", progress |-> 0, start_time |-> t,
     processing_time_seconds |-> None]

\* variant: the argument is stored as it comes
clamp_none(progress) == progress

\* lines 41 and 110: max(0, min(100, progress))
clamp(progress) == Max(0, Min(100, progress))

\* lines 46 and 52: int((datetime.now() - self.start_time).total_seconds())
elapsed_seconds(s, t) == (t - s.start_time) * 3600

\* lines 39-46
ProcessingStatus_update_progress(s, progress, t) ==
    IF progress >= 100
    THEN [s EXCEPT !.progress = clamp(progress), !.status = "completed",
                   !.processing_time_seconds = elapsed_seconds(s, t)]
    ELSE [s EXCEPT !.progress = clamp(progress)]

\* lines 48-52
mark_error(s, t) ==
    [s EXCEPT !.status = "error", !.processing_time_seconds = elapsed_seconds(s, t)]

\* lines 54-56
mark_processing(s) == [s EXCEPT !.status = "processing"]

\* "if self.processing_status": the field is not None
has_status(d) == d.processing_status.status # "None"

\* lines 108-114
SessionData_update_progress(d, progress, t) ==
    [d EXCEPT !.progress_percentage = clamp(progress),
              !.processing_status =
                  IF has_status(d) THEN ProcessingStatus_update_progress(@, progress, t)
                  ELSE @]

\* lines 116-122: a new status replaces the one there was
SessionData_start_processing(d, task_id, t) ==
    [d EXCEPT !.processing_status =
                  mark_processing(ProcessingStatus_create_new(task_id, t)),
              !.progress_percentage = 0]

\* lines 124-129
SessionData_complete_processing(d, t) ==
    [d EXCEPT !.processing_status =
                  IF has_status(d) THEN ProcessingStatus_update_progress(@, 100, t)
                  ELSE @,
              !.progress_percentage = 100]

\* lines 131-136
SessionData_fail_processing(d, t) ==
    [d EXCEPT !.processing_status = IF has_status(d) THEN mark_error(@, t) ELSE @]

\* a method of the SessionData of sid, or of its ProcessingStatus, is
\* called: nothing else changes
DataCall(sid, d) ==
    /\ sid \in DOMAIN session_data
    /\ session_data' = [session_data EXCEPT ![sid] = d]
    /\ UNCHANGED <<api, session_lock, reg, files, locks, io, now, sess, active_sessions,
                   processing_files, workspace, metadata, upd, tasks, last>>

data_update_progress(sid, progress) ==
    /\ DataCall(sid, SessionData_update_progress(session_data[sid], progress, now))
    /\ UNCHANGED task_ids

data_start_processing(sid) ==
    /\ task_ids < MaxTaskIds
    /\ task_ids' = task_ids + 1
    /\ DataCall(sid, SessionData_start_processing(session_data[sid], task_ids + 1, now))

data_complete_processing(sid) ==
    /\ DataCall(sid, SessionData_complete_processing(session_data[sid], now))
    /\ UNCHANGED task_ids

data_fail_processing(sid) ==
    /\ DataCall(sid, SessionData_fail_processing(session_data[sid], now))
    /\ UNCHANGED task_ids

\* the methods of the ProcessingStatus called on the object that
\* start_processing returned
status_update_progress(sid, progress) ==
    /\ sid \in DOMAIN session_data /\ has_status(session_data[sid])
    /\ DataCall(sid, [session_data[sid] EXCEPT !.processing_status =
                        ProcessingStatus_update_progress(@, progress, now)])
    /\ UNCHANGED task_ids

status_mark_error(sid) ==
    /\ sid \in DOMAIN session_data /\ has_status(session_data[sid])
    /\ DataCall(sid, [session_data[sid] EXCEPT !.processing_status = mark_error(@, now)])
    /\ UNCHANGED task_ids

status_mark_processing(sid) ==
    /\ sid \in DOMAIN session_data /\ has_status(session_data[sid])
    /\ DataCall(sid, [session_data[sid] EXCEPT !.processing_status = mark_processing(@)])
    /\ UNCHANGED task_ids

----------------------------------------------------------------------------
(* The router of api/sessions.py.  The handlers are coroutines of one      *)
(* event loop: a handler runs without interruption by another handler      *)
(* from one await to the next.  upload_audio awaits once, for the body of  *)
(* the upload; start_processing does not await.  A file name is a stem and *)
(* the extension it ends with.  An HTTPException raised inside the try     *)
(* block of a handler is an Exception, so the last except clause catches   *)
(* it and raises HTTPException(500) in its place.                          *)

\* api/sessions.py lines 177-178
allowed_types ==
    {"audio/mp3", "audio/mpeg", "audio/wav", "audio/m4a", "audio/mp4", "audio/ogg",
     "application/octet-stream"}
allowed_extensions == {".mp3", ".wav", ".m4a", ".mp4", ".ogg"}

\* line 184
is_valid_extension(filename) == filename.ext \in allowed_extensions

\* lines 186-190: the two conditions under which HTTPException(400) is raised
invalid_format(filename, ctype) ==
    \/ ctype \notin allowed_types /\ ~ is_valid_extension(filename)
    \/ ctype = "application/octet-stream" /\ ~ is_valid_extension(filename)

\* the answer to a request
Response(op, sid, code, state, task) ==
    [IdleApi EXCEPT !.op = op, !.sid = sid, !.code = code,
                    !.session_state = state, !.task_id = task]

\* TutorialSession.update_state, as update_session_state applies it when
\* get_session has returned the session: the session after the call
update_state(s, new, t) ==
    IF is_valid_state_transition(s.state, new)
    THEN [s EXCEPT !.state = new, !.last_updated = t]
    ELSE s

\* lines 163-172: get_session, the file name check, then the await of the
\* body.  SessionNotFoundError is answered with 404.
upload_audio_begin(sid, filename, ctype, size) ==
    /\ api.pc = "idle"
    /\ get_session_body(sid)
    /\ api' = IF get_session_outcome(sid) = "session"
              THEN [IdleApi EXCEPT !.pc = "read", !.op = "upload_audio", !.sid = sid,
                                   !.filename = filename, !.ctype = ctype,
                                   !.size = size]
              ELSE Response("upload_audio", sid, 404, "-", 0)
    /\ UNCHANGED <<task_ids, session_lock, reg, io, now, sess, upd, last>>

\* lines 173-226, after the await: the size and format checks, whose 413
\* and 400 become 500; create_workspace; the write of the file;
\* AudioRecording.create_from_upload (audio_recording.py lines 64-78), whose
\* ValueError for a content type that is not allowed is answered with 400;
\* update_session_state, whose result is not looked at; the 201 response
upload_audio_finish ==
    /\ api.pc = "read"
    /\ LET sid == api.sid
           path == <<sid, "audio/original", api.filename>>
       IN  IF api.size > MAX_SIZE \/ invalid_format(api.filename, api.ctype)
           THEN /\ api' = Response("upload_audio", sid, 500, "-", 0)
                /\ UNCHANGED <<files, locks, sess, active_sessions, session_data,
                               processing_files, workspace, metadata, tasks>>
           ELSE IF get_session_outcome(sid) # "session"
           THEN /\ get_session_body(sid)
                /\ api' = Response("upload_audio", sid, 404, "-", 0)
                /\ UNCHANGED sess
           ELSE /\ workspace' = create_session_workspace(workspace, sid)
                /\ files' = (path :> [by |-> 0, len |-> api.size, total |-> api.size])
                               @@ Drop(files, path)
                /\ IF api.ctype \notin allowed_types
                   THEN /\ api' = Response("upload_audio", sid, 400, "-", 0)
                        /\ UNCHANGED <<sess, metadata>>
                   ELSE /\ sess' = [sess EXCEPT ![sid] =
                                      update_state(@, "AUDIO_UPLOADED", now)]
                        /\ IF is_valid_state_transition(sess[sid].state, "AUDIO_UPLOADED")
                           THEN metadata' = (sid :> to_dict(sess'[sid]))
                                               @@ Drop(metadata, sid)
                           ELSE UNCHANGED metadata
                        /\ api' = Response("upload_audio", sid, 201, "AUDIO_UPLOADED", 0)
                /\ UNCHANGED <<locks, active_sessions, session_data, processing_files, tasks>>
    /\ UNCHANGED <<task_ids, session_lock, reg, io, now, upd, last>>

\* lines 259-295: get_session; the state check, whose 409 becomes 500;
\* get_session_data and start_processing; update_session_state, whose
\* result is not looked at; the 202 response
start_processing(sid) ==
    /\ api.pc = "idle"
    /\ IF get_session_outcome(sid) # "session"
       THEN /\ get_session_body(sid)
            /\ api' = Response("start_processing", sid, 404, "-", 0)
            /\ UNCHANGED <<sess, task_ids>>
       ELSE IF sess[sid].state \notin {"AUDIO_UPLOADED", "CONTENT_ADDED"}
       THEN /\ api' = Response("start_processing", sid, 500, "-", 0)
            /\ UNCHANGED <<sess, task_ids, active_sessions, session_data,
                           processing_files, workspace, metadata, tasks, files, locks>>
       ELSE /\ task_ids < MaxTaskIds
            /\ task_ids' = task_ids + 1
            /\ session_data' =
                 [((sid :> SessionData) @@ session_data) EXCEPT ![sid] =
                     SessionData_start_processing(session_data[sid], task_ids + 1, now)]
            /\ sess' = [sess EXCEPT ![sid] = update_state(@, "PROCESSING", now)]
            /\ workspace' = workspace \cup {sid}
            /\ metadata' = (sid :> to_dict(sess'[sid])) @@ Drop(metadata, sid)
            /\ api' = Response("start_processing", sid, 202, "PROCESSING", task_ids + 1)
            /\ UNCHANGED <<active_sessions, processing_files, tasks, files, locks>>
    /\ UNCHANGED <<session_lock, reg, io, now, upd, last>>

----------------------------------------------------------------------------
(* Spec: every registry call, the busy markers, the deferred clean-up      *)
(* threads and the clock.  The clock jumps by the session timeout (to the  *)
(* deadline itself) or just past it.                                       *)

TickSteps == {SESSION_TIMEOUT_HOURS, SESSION_TIMEOUT_HOURS + 1}
SessionIds == 1 .. NextId

Next ==
    \/ \E d \in TickSteps : Tick(d)
    \/ create_session(MaxIds)
    \/ \E sid \in CallIds : get_session(sid)
    \/ \E sid \in CallIds : end_session(sid)
    \/ \E sid \in SessionIds, f \in Files, s \in Services : mark_file_processing(sid, f, s)
    \/ \E sid \in SessionIds, f \in Files, s \in Services : unmark_file_processing(sid, f, s)
    \/ \E i \in DOMAIN tasks : delayed_cleanup_check(i)
    \/ \E i \in DOMAIN tasks : delayed_cleanup_delete(i)

Spec == Init /\ [][Next]_vars

(* SpecUpdate: one caller of update_session_state, with sessions that are  *)
(* created, expire and are ended                                           *)

NextUpdate ==
    \/ \E d \in TickSteps : Tick(d)
    \/ create_session(UpdIds)
    \/ \E sid \in CallIds : end_session(sid)
    \/ \E sid \in CallIds, new \in WorkflowState : update_session_state_get(1, sid, new)
    \/ update_state_validate(1)
    \/ update_state_assign(1)
    \/ update_session_state_save(1)

SpecUpdate == Init /\ [][NextUpdate]_vars

(* SpecRace: NumThreads concurrent callers of update_session_state *)

NextRace ==
    \/ create_session(UpdIds)
    \/ \E u \in Threads, sid \in SessionIds, new \in WorkflowState :
          update_session_state_get(u, sid, new)
    \/ \E u \in Threads : update_state_validate(u)
    \/ \E u \in Threads : update_state_assign(u)
    \/ \E u \in Threads : update_session_state_save(u)

SpecRace == Init /\ [][NextRace]_vars

(* SpecCap: the registry up to its cap; the first CapBusy sessions may     *)
(* carry busy markers                                                      *)

NextCap ==
    \/ \E d \in TickSteps : Tick(d)
    \/ create_session(CapIds)
    \/ \E sid \in CallIds : get_session(sid)
    \/ \E sid \in CallIds : end_session(sid)
    \/ \E sid \in SessionIds \cap (1 .. CapBusy), f \in Files, s \in Services :
          mark_file_processing(sid, f, s)
    \/ \E sid \in SessionIds \cap (1 .. CapBusy), f \in Files, s \in Services :
          unmark_file_processing(sid, f, s)
    \/ \E i \in DOMAIN tasks : delayed_cleanup_check(i)
    \/ \E i \in DOMAIN tasks : delayed_cleanup_delete(i)

SpecCap == Init /\ [][NextCap]_vars

(* SpecData: the calls that read or write the two tables of the registry,  *)
(* with ids that are known and ids that are not                            *)

NextData ==
    \/ \E d \in TickSteps : Tick(d)
    \/ create_session(UpdIds)
    \/ \E sid \in CallIds : get_session(sid)
    \/ \E sid \in CallIds : get_session_data(sid)
    \/ \E sid \in CallIds : end_session(sid)
    \/ \E sid \in CallIds, new \in WorkflowState : update_session_state_get(1, sid, new)
    \/ update_state_validate(1)
    \/ update_state_assign(1)
    \/ update_session_state_save(1)

SpecData == Init /\ [][NextData]_vars

(* SpecSession: TutorialSession objects on their own, built with any       *)
(* session_timeout_hours and extended with any additional_hours, while the *)
(* clock advances hour by hour                                             *)

Hours == (0 - MaxHours) .. MaxHours

session_create_new(hours) ==
    /\ NextId < ObjIds
    /\ sess' = Append(sess, create_new_timeout(now, hours))
    /\ UNCHANGED <<api, task_ids, session_lock, reg, files, locks, io, now, active_sessions, session_data, processing_files,
                   workspace, metadata, upd, tasks, last>>

session_extend_expiration(sid, hours) ==
    /\ sess' = [sess EXCEPT ![sid] = extend_expiration(sess[sid], now, hours)]
    /\ UNCHANGED <<api, task_ids, session_lock, reg, files, locks, io, now, active_sessions, session_data, processing_files,
                   workspace, metadata, upd, tasks, last>>

NextSession ==
    \/ Tick(1)
    \/ \E hours \in Hours : session_create_new(hours)
    \/ \E sid \in SessionIds, hours \in Hours : session_extend_expiration(sid, hours)

SpecSession == Init /\ [][NextSession]_vars

(* SpecSave: one caller of save_large_file on the sessions of the registry *)

StreamSizes ==
    {5 * 1024, 60 * 1024 * 1024, MAX_SESSION_STORAGE, MAX_SESSION_STORAGE + 1}

NextSave ==
    \/ create_session(IoIds)
    \/ \E sid \in SessionIds, ftype \in FileTypes, name \in Names, size \in StreamSizes :
          save_large_file_check(1, sid, ftype, name, size)
    \/ save_lock_acquire(1)
    \/ save_open(1)
    \/ save_write(1)
    \/ save_write_error(1)
    \/ save_except(1)

SpecSave == Init /\ [][NextSave]_vars

(* SpecLock: NumIo threads that save and read one file *)

LockNames == {1}
LockSizes == {5 * 1024, MAX_SESSION_STORAGE + 1}

NextLock ==
    \/ create_session(IoIds)
    \/ \E t \in IoThreads, sid \in SessionIds, ftype \in FileTypes,
          name \in LockNames, size \in LockSizes :
          save_large_file_check(t, sid, ftype, name, size)
    \/ \E t \in IoThreads : save_lock_acquire(t)
    \/ \E t \in IoThreads : save_lock_timeout(t)
    \/ \E t \in IoThreads : save_open(t)
    \/ \E t \in IoThreads : save_write(t)
    \/ \E t \in IoThreads : save_write_error(t)
    \/ \E t \in IoThreads : save_except(t)
    \/ \E t \in IoThreads, sid \in SessionIds, ftype \in FileTypes, name \in LockNames :
          get_file_stream_start(t, sid, ftype, name)
    \/ \E t \in IoThreads : read_lock_acquire(t)
    \/ \E t \in IoThreads : read_lock_timeout(t)
    \/ \E t \in IoThreads : read_open(t)
    \/ \E t \in IoThreads : read_chunks(t)

SpecLock == Init /\ [][NextLock]_vars

(* SpecRW: one writer and one reader of the same file.  Thread 1 calls     *)
(* save_large_file, thread 2 calls get_file_stream, again and again.       *)

Writer == 1
Reader == 2

NextRW ==
    \/ create_session(IoIds)
    \/ \E sid \in SessionIds, ftype \in FileTypes, name \in LockNames, size \in LockSizes :
          save_large_file_check(Writer, sid, ftype, name, size)
    \/ save_lock_acquire(Writer)
    \/ save_lock_timeout(Writer)
    \/ save_open(Writer)
    \/ save_write(Writer)
    \/ save_write_error(Writer)
    \/ save_except(Writer)
    \/ \E sid \in SessionIds, ftype \in FileTypes, name \in LockNames :
          get_file_stream_start(Reader, sid, ftype, name)
    \/ read_lock_acquire(Reader)
    \/ read_lock_timeout(Reader)
    \/ read_open(Reader)
    \/ read_chunks(Reader)

SpecRW == Init /\ [][NextRW]_vars

(* SpecKeys: NumIo threads that save and read files of one session in two  *)
(* category directories, under file names that may be equal                *)

KeyTypes == {"audio/original", "pdfs"}
KeySizes == {5 * 1024}

NextKeys ==
    \/ create_session(IoIds)
    \/ \E t \in IoThreads, sid \in SessionIds, ftype \in KeyTypes,
          name \in Names, size \in KeySizes :
          save_large_file_check(t, sid, ftype, name, size)
    \/ \E t \in IoThreads : save_lock_acquire(t)
    \/ \E t \in IoThreads : save_lock_timeout(t)
    \/ \E t \in IoThreads : save_open(t)
    \/ \E t \in IoThreads : save_write(t)
    \/ \E t \in IoThreads : save_except(t)
    \/ \E t \in IoThreads, sid \in SessionIds, ftype \in KeyTypes, name \in Names :
          get_file_stream_start(t, sid, ftype, name)
    \/ \E t \in IoThreads : read_lock_acquire(t)
    \/ \E t \in IoThreads : read_lock_timeout(t)
    \/ \E t \in IoThreads : read_open(t)
    \/ \E t \in IoThreads : read_chunks(t)

SpecKeys == Init /\ [][NextKeys]_vars

(* SpecMutex: NumThreads threads inside create_session, get_session and    *)
(* end_session, with session_lock and the filesystem calls visible; the    *)
(* busy markers are set and cleared when the lock is free                  *)

NextMutex ==
    \/ \E d \in TickSteps : Tick(d)
    \/ \E t \in Threads : create_session_enter(t, MaxIds)
    \/ \E t \in Threads : create_session_mkdir(t)
    \/ \E t \in Threads : create_session_save(t)
    \/ \E t \in Threads, sid \in CallIds : get_session_enter(t, sid)
    \/ \E t \in Threads : get_session_load(t)
    \/ \E t \in Threads, sid \in CallIds : end_session_enter(t, sid)
    \/ \E t \in Threads : end_session_rmtree(t)
    \/ \E sid \in SessionIds, f \in Files, s \in Services :
          session_lock.owner = 0 /\ mark_file_processing(sid, f, s)
    \/ \E sid \in SessionIds, f \in Files, s \in Services :
          session_lock.owner = 0 /\ unmark_file_processing(sid, f, s)
    \/ \E i \in DOMAIN tasks : delayed_cleanup_check(i)
    \/ \E i \in DOMAIN tasks : delayed_cleanup_delete(i)

SpecMutex == Init /\ [][NextMutex]_vars

(* SpecApi: the router handles uploads and processing requests, one at a   *)
(* time, for a session that another caller of update_session_state moves   *)
(* through its workflow, while the clock advances                          *)

ApiFileNames == {[stem |-> 1, ext |-> ".mp3"], [stem |-> 2, ext |-> ".txt"]}
ApiTypes == {"audio/mpeg", "application/octet-stream", "text/plain"}
ApiSizes == {5 * 1024, MAX_SIZE + 1}

NextApi ==
    \/ \E d \in TickSteps : Tick(d)
    \/ create_session(ApiIds)
    \/ \E sid \in CallIds, new \in WorkflowState : update_session_state_get(1, sid, new)
    \/ update_state_validate(1)
    \/ update_state_assign(1)
    \/ update_session_state_save(1)
    \/ \E sid \in CallIds, filename \in ApiFileNames, ctype \in ApiTypes,
          size \in ApiSizes : upload_audio_begin(sid, filename, ctype, size)
    \/ upload_audio_finish
    \/ \E sid \in CallIds : start_processing(sid)

SpecApi == Init /\ [][NextApi]_vars

(* SpecStatus: the SessionData of a session and its ProcessingStatus,      *)
(* under any sequence of their methods with progress arguments below,      *)
(* inside and above 0..100, while the clock advances hour by hour          *)

ProgressArgs == {0 - 1, 0, 50, 100, 101}

NextStatus ==
    \/ Tick(1)
    \/ create_session(StatusIds)
    \/ \E sid \in SessionIds, p \in ProgressArgs : data_update_progress(sid, p)
    \/ \E sid \in SessionIds : data_start_processing(sid)
    \/ \E sid \in SessionIds : data_complete_processing(sid)
    \/ \E sid \in SessionIds : data_fail_processing(sid)
    \/ \E sid \in SessionIds, p \in ProgressArgs : status_update_progress(sid, p)
    \/ \E sid \in SessionIds : status_mark_error(sid)
    \/ \E sid \in SessionIds : status_mark_processing(sid)

SpecStatus == Init /\ [][NextStatus]_vars

(* SpecTeardown: sessions are ended, or evicted by get_session once they   *)
(* have expired, while the writer and the reader of SpecRW save and read a *)
(* file of theirs and a caller of update_session_state records the upload  *)

NextTeardown ==
    \/ \E d \in TickSteps : Tick(d)
    \/ create_session(IoIds)
    \/ \E sid \in SessionIds : get_session(sid)
    \/ \E sid \in SessionIds : end_session(sid)
    \/ \E sid \in SessionIds : update_session_state_get(1, sid, "AUDIO_UPLOADED")
    \/ update_state_validate(1)
    \/ update_state_assign(1)
    \/ update_session_state_save(1)
    \/ \E sid \in SessionIds, ftype \in FileTypes, name \in LockNames, size \in LockSizes :
          save_large_file_check(Writer, sid, ftype, name, size)
    \/ save_lock_acquire(Writer)
    \/ save_lock_timeout(Writer)
    \/ save_lock_no_dir(Writer)
    \/ save_open(Writer)
    \/ save_write(Writer)
    \/ save_except(Writer)
    \/ \E sid \in SessionIds, ftype \in FileTypes, name \in LockNames :
          get_file_stream_start(Reader, sid, ftype, name)
    \/ read_lock_acquire(Reader)
    \/ read_lock_timeout(Reader)
    \/ read_lock_no_dir(Reader)
    \/ read_open(Reader)
    \/ read_chunks(Reader)

SpecTeardown == Init /\ [][NextTeardown]_vars

(* SpecQuota: check_storage_quota as a function of what is on disk.  The   *)
(* manager holds QuotaIds sessions, created one hour apart, some of them   *)
(* busy; each holds none, a few or QuotaFiles uploaded recordings of the   *)
(* largest size upload_audio accepts, so that sessions and the store as a  *)
(* whole are found below, close to and above their ceilings.  The sizes    *)
(* asked for are those on both sides of each ceiling.                      *)

QuotaSessions == 1 .. QuotaIds
FileCounts == {0, 3, QuotaFiles}

InitQuota ==
    /\ now = QuotaIds - 1
    /\ \E k \in [QuotaSessions -> FileCounts] :
          /\ sess = [i \in QuotaSessions |->
                       [create_new(i - 1) EXCEPT
                          !.state = IF k[i] = 0 THEN "INITIAL" ELSE "AUDIO_UPLOADED",
                          !.last_updated = IF k[i] = 0 THEN i - 1 ELSE now]]
          /\ files = [p \in {<<i, "audio/original", n>> :
                                i \in QuotaSessions, n \in 1 .. QuotaFiles}
                            \cap {q \in QuotaSessions \X FileTypes \X (1 .. QuotaFiles) :
                                    q[3] <= k[q[1]]}
                        |-> [by |-> 0, len |-> MAX_SIZE, total |-> MAX_SIZE]]
    /\ active_sessions = QuotaSessions
    /\ session_data = [i \in QuotaSessions |-> SessionData]
    /\ processing_files \in [QuotaSessions -> {{}, {Tag(1, "svc")}}]
    /\ workspace = QuotaSessions
    /\ metadata = [i \in QuotaSessions |-> to_dict(sess[i])]
    /\ upd = [u \in Threads |-> IdleThread]
    /\ tasks = <<>>
    /\ locks = <<>>
    /\ io = [t \in IoThreads |-> IdleIo]
    /\ last = Result("none", 0, "-", "-")
    /\ api = IdleApi
    /\ task_ids = 0
    /\ session_lock = Unlocked
    /\ reg = [t \in Threads |-> IdleReg]

QuotaSizes(sid) ==
    {n \in {0, 1,
            MAX_SESSION_STORAGE - get_session_storage_size(sid),
            MAX_SESSION_STORAGE - get_session_storage_size(sid) + 1,
            MAX_TOTAL_STORAGE - get_total_storage_size,
            MAX_TOTAL_STORAGE - get_total_storage_size + 1} : n >= 0}

NextQuota ==
    \E sid \in QuotaSessions :
        \E n \in QuotaSizes(sid) : check_storage_quota_call(1, sid, n)

SpecQuota == InitQuota /\ [][NextQuota]_vars

(* SpecCore: two threads call the methods that take session_lock, and in   *)
(* between the first saves a file and the second reads it.  A thread is    *)
(* inside one call at a time: the registry methods call no file method and *)
(* the file methods take no session_lock (check_storage_quota, which       *)
(* save_large_file calls, only measures).  update_session_state takes the  *)
(* lock inside get_session and nowhere else.  The calls on the filesystem  *)
(* made under the lock may fail.  The clock jumps past the deadline.       *)

CoreThreads == Threads \cap IoThreads
CoreSizes == {5 * 1024}

\* the thread is in no call of the registry; in no call on a file
OutOfRegistry(t) == reg[t].pc = "idle"
OutOfFiles(t) == io[t].pc \in IoFree

NextCore ==
    \/ Tick(SESSION_TIMEOUT_HOURS + 1)
    \/ \E t \in CoreThreads : OutOfFiles(t) /\ create_session_enter(t, IoIds)
    \/ \E t \in CoreThreads : create_session_mkdir(t)
    \/ \E t \in CoreThreads : create_session_save(t)
    \/ \E t \in CoreThreads : create_session_fails(t)
    \/ \E t \in CoreThreads, sid \in CallIds : OutOfFiles(t) /\ get_session_enter(t, sid)
    \/ \E t \in CoreThreads : get_session_load(t)
    \/ \E t \in CoreThreads, sid \in CallIds : OutOfFiles(t) /\ end_session_enter(t, sid)
    \/ \E t \in CoreThreads : end_session_rmtree(t)
    \/ \E t \in CoreThreads : end_session_rmtree_fails(t)
    \/ \E sid \in SessionIds, f \in Files, s \in Services :
          session_lock.owner = 0 /\ mark_file_processing(sid, f, s)
    \/ \E sid \in SessionIds, f \in Files, s \in Services :
          session_lock.owner = 0 /\ unmark_file_processing(sid, f, s)
    \/ \E sid \in SessionIds, ftype \in FileTypes, name \in LockNames, size \in CoreSizes :
          OutOfRegistry(Writer) /\ save_large_file_check(Writer, sid, ftype, name, size)
    \/ save_lock_acquire(Writer)
    \/ save_lock_timeout(Writer)
    \/ save_lock_no_dir(Writer)
    \/ save_open(Writer)
    \/ save_write(Writer)
    \/ save_except(Writer)
    \/ \E sid \in SessionIds, ftype \in FileTypes, name \in LockNames :
          OutOfRegistry(Reader) /\ get_file_stream_start(Reader, sid, ftype, name)
    \/ read_lock_acquire(Reader)
    \/ read_lock_timeout(Reader)
    \/ read_lock_no_dir(Reader)
    \/ read_open(Reader)
    \/ read_chunks(Reader)

SpecCore == Init /\ [][NextCore]_vars

\* what the owner of session_lock does next: each of its steps is a call
\* that returns or a release
HolderStep(t) ==
    \/ create_session_mkdir(t)
    \/ create_session_save(t)
    \/ get_session_load(t)
    \/ end_session_rmtree(t)

(* FairCore: SpecCore with the scheduling of the threads: a thread that    *)
(* holds session_lock is not starved, and the filesystem call it is in     *)
(* returns                                                                 *)
FairCore == SpecCore /\ \A t \in CoreThreads : WF_vars(HolderStep(t))

(* FairSpec: Spec with the scheduling of the delayed_cleanup threads: a     *)
(* started thread is not starved, its sleep ends and its steps are taken   *)

FairSpec ==
    /\ Spec
    /\ \A i \in 1 .. MaxTasks :
          WF_vars(delayed_cleanup_check(i)) /\ WF_vars(delayed_cleanup_delete(i))

----------------------------------------------------------------------------
(* Vocabulary of the properties *)

\* the legal edges of the workflow, as the specification lists them
LegalEdges ==
    {<<"INITIAL", "AUDIO_UPLOADED">>, <<"INITIAL", "ERROR">>,
     <<"AUDIO_UPLOADED", "CONTENT_ADDED">>, <<"AUDIO_UPLOADED", "PROCESSING">>,
     <<"AUDIO_UPLOADED", "ERROR">>,
     <<"CONTENT_ADDED", "PROCESSING">>, <<"CONTENT_ADDED", "ERROR">>,
     <<"PROCESSING", "COMPLETED">>, <<"PROCESSING", "ERROR">>,
     <<"COMPLETED", "INITIAL">>, <<"COMPLETED", "ERROR">>,
     <<"ERROR", "PROCESSING">>, <<"ERROR", "INITIAL">>}

\* present in the registry and not past its deadline
Live(sid) == sid \in active_sessions /\ now <= sess[sid].expires_at

Busy(sid) == sid \in DOMAIN processing_files /\ processing_files[sid] # {}

\* a call of the named operation returns in this step
Returns(op) == last' # last /\ last'.op = op

\* positions of a caller of update_session_state in this step
GetFails == Returns("update") /\ upd' = upd
GetPasses(u) == upd[u].pc = "idle" /\ upd'[u].pc = "validate"
Rejects(u) == upd[u].pc = "validate" /\ upd'[u].pc = "idle"

----------------------------------------------------------------------------
(* C1: update_session_state returns True exactly when the session is live  *)
(* (a key of the registry, not expired) when it is fetched and the pair    *)
(* (state read by the validation, requested state) is a legal edge; it     *)
(* returns False for an absent or expired session and for an illegal pair, *)
(* in whatever state the request is made (so also when it is repeated).    *)
C1_Step ==
    /\ GetFails => ~ Live(last'.sid) /\ last'.ret = "False"
    /\ \A u \in Threads :
        /\ GetPasses(u) => Live(upd'[u].sid)
        /\ (upd[u].pc = "validate" /\ upd'[u] # upd[u]) =>
              IF <<sess[upd[u].sid].state, upd[u].new>> \in LegalEdges
              THEN upd'[u].pc = "assign" /\ last' = last
              ELSE /\ upd'[u].pc = "idle"
                   /\ last' = Result("update", upd[u].sid, "False", "ValueError")
        /\ (upd[u].pc = "assign" /\ upd'[u] # upd[u]) =>
              /\ upd'[u].pc = "save" /\ last' = last
              /\ sess'[upd[u].sid].state = upd[u].new
        /\ (upd[u].pc = "save" /\ upd'[u] # upd[u]) =>
              /\ upd'[u].pc = "idle"
              /\ last' = Result("update", upd[u].sid, "True", "-")
    /\ (Returns("update") /\ last'.ret = "True") =>
          \E u \in Threads : upd[u].pc = "save" /\ upd'[u].pc = "idle"
    /\ Returns("update") => last'.ret \in {"True", "False"}

C1_TransitionIffLegal == [][C1_Step]_vars

\* a legal request has succeeded and an illegal one was then refused
C1_Witness ==
    /\ last = Result("update", 1, "False", "ValueError")
    /\ 1 \in active_sessions
    /\ sess[1].state = "AUDIO_UPLOADED"

(* C2: a request refused for an illegal pair changes nothing: neither the  *)
(* fetch that precedes the validation nor the refusal itself changes the   *)
(* session's fields, the registry, the workspace or the persisted record.  *)
C2_Step ==
    \A u \in Threads :
        (GetPasses(u) \/ Rejects(u)) =>
            UNCHANGED <<sess, active_sessions, session_data, processing_files,
                        workspace, metadata>>

C2_RejectedLeavesUntouched == [][C2_Step]_vars

\* an illegal request was refused at a time when a write of last_updated
\* would have been visible
C2_Witness ==
    /\ last = Result("update", 1, "False", "ValueError")
    /\ 1 \in active_sessions
    /\ 1 \in DOMAIN metadata
    /\ now > sess[1].last_updated

(* C3: every change of a session's state is a legal edge, under any        *)
(* interleaving of concurrent update_session_state calls.                  *)
C3_Step ==
    \A sid \in DOMAIN sess :
        sess'[sid].state # sess[sid].state =>
            <<sess[sid].state, sess'[sid].state>> \in LegalEdges

C3_OnlyLegalSteps == [][C3_Step]_vars

(* C4: the registry never holds more than 5 sessions; a create_session    *)
(* issued while 5 are held raises ConcurrencyLimitError and adds no key to *)
(* active_sessions or session_data and no workspace directory, and only    *)
(* such a create fails.                                                    *)
C4_Step ==
    Returns("create") =>
        IF Cardinality(active_sessions) >= 5
        THEN /\ last'.ret = "ConcurrencyLimitError"
             /\ UNCHANGED <<sess, active_sessions, session_data, workspace, metadata>>
        ELSE last'.ret = "ok"

C4_AtMostFive == [](Cardinality(active_sessions) <= 5) /\ [][C4_Step]_vars

\* five sessions are held and a further create has just been refused
C4_Witness ==
    /\ Cardinality(active_sessions) = 5
    /\ last = Result("create", Unknown, "ConcurrencyLimitError", "-")
    /\ NextId = 5
    /\ workspace = active_sessions

(* C5, as claimed: at the cap, a successful end_session on any held        *)
(* session, busy or not, frees a slot, and a create_session issued while a *)
(* slot is free succeeds.                                                  *)
SlotFree == Cardinality(active_sessions) < MAX_CONCURRENT_SESSIONS

C5_ClaimedStep ==
    /\ (Returns("end") /\ last'.ret = "True" /\ last'.sid \in active_sessions
          /\ ~ SlotFree) => SlotFree'
    /\ (Returns("create") /\ SlotFree) => last'.ret = "ok"

C5_EndFreesSlot == [][C5_ClaimedStep]_vars

(* C5, amended: at the cap, a successful end_session on a held session     *)
(* whose busy-set is empty frees a slot, and a create_session issued while *)
(* a slot is free succeeds.                                                *)
C5_AmendedStep ==
    /\ (Returns("end") /\ last'.ret = "True" /\ last'.sid \in active_sessions
          /\ ~ Busy(last'.sid) /\ ~ SlotFree) => SlotFree'
    /\ (Returns("create") /\ SlotFree) => last'.ret = "ok"

C5_EndOfIdleFreesSlot == [][C5_AmendedStep]_vars

\* session 5 filled the registry, was ended, and session 6 took its slot
C5_Witness ==
    /\ active_sessions = {1, 2, 3, 4, 6}
    /\ last = Result("create", 6, "ok", "-")

(* C6: get_session returns a session only when it is a key of the registry *)
(* and its deadline has not passed; otherwise it raises                    *)
(* SessionNotFoundError, whatever the busy-set; a get on an absent id      *)
(* changes nothing in the registry.                                        *)
C6_Step ==
    Returns("get") =>
          /\ last'.ret = "session" => Live(last'.sid)
          /\ ~ Live(last'.sid) => last'.ret = "SessionNotFoundError"
          /\ last'.sid \notin active_sessions =>
                UNCHANGED <<sess, active_sessions, session_data, processing_files,
                            workspace, metadata, tasks>>

C6_NeverReturnsDeadSession == [][C6_Step]_vars

\* the get of an expired session that carries a busy marker was refused
C6_Witness ==
    /\ last = Result("get", 1, "SessionNotFoundError", "has expired")
    /\ Busy(1)
    /\ now > sess[1].expires_at

(* C7: when get_session has raised SessionNotFoundError for expiry, the    *)
(* session id is a key of neither active_sessions nor session_data.        *)
C7_ExpiredIsEvicted ==
    (last.op = "get" /\ last.msg = "has expired") =>
        last.sid \notin active_sessions /\ last.sid \notin DOMAIN session_data

(* C8: when end_session on a held session with an empty busy-set returns,  *)
(* the id is a key of none of active_sessions, session_data,               *)
(* processing_files, and its workspace directory is gone.                  *)
C8_Step ==
    (Returns("end") /\ last'.sid \in active_sessions /\ ~ Busy(last'.sid)) =>
        /\ last'.sid \notin active_sessions'
        /\ last'.sid \notin DOMAIN session_data'
        /\ last'.sid \notin DOMAIN processing_files'
        /\ last'.sid \notin workspace'

C8_EndRemovesEverything == [][C8_Step]_vars

(* C9: end_session on a session with a non-empty busy-set returns True     *)
(* having deleted nothing: registry, workspace and persisted record are    *)
(* unchanged, and the deferred check is a thread of its own that is still  *)
(* in its sleep when the call returns.                                     *)
C9_Step ==
    (Returns("end") /\ Busy(last'.sid)) =>
        /\ last'.ret = "True"
        /\ UNCHANGED <<sess, active_sessions, session_data, workspace, metadata>>
        /\ tasks' = Append(tasks, [sid |-> last'.sid, pc |-> "sleep"])

C9_BusyEndDefers == [][C9_Step]_vars

\* end_session has returned for a busy session whose workspace still exists
\* and whose deferred check has not run yet
C9_Witness ==
    /\ last = Result("end", 1, "True", "-")
    /\ Busy(1)
    /\ 1 \in workspace /\ 1 \in DOMAIN metadata
    /\ tasks = <<[sid |-> 1, pc |-> "sleep"]>>

(* C10, as claimed: once end_session has deferred the teardown of a        *)
(* session, the grace period has elapsed and the busy-set is empty, the    *)
(* workspace is eventually deleted.                                        *)
GraceElapsed(i) == i \in DOMAIN tasks /\ tasks[i].pc \in {"delete", "abandoned"}

Deleted(i) == i \in DOMAIN tasks /\ tasks[i].sid \notin workspace

C10_EventuallyDeleted ==
    \A i \in 1 .. MaxTasks :
        (GraceElapsed(i) /\ ~ Busy(tasks[i].sid)) ~> Deleted(i)

(* C10, amended: once end_session has deferred the teardown of a session,  *)
(* if the busy-set is empty at the moment the grace period ends and the    *)
(* deferred thread evaluates can_cleanup_session, the workspace is         *)
(* eventually deleted.                                                     *)
CheckPassed(i) == i \in DOMAIN tasks /\ tasks[i].pc = "delete"

C10_DeletedIfIdleAtCheck ==
    \A i \in 1 .. MaxTasks : CheckPassed(i) ~> Deleted(i)

\* the deferred thread found the busy-set empty and deleted the workspace
C10_Witness ==
    /\ tasks # <<>>
    /\ tasks[1].pc = "done"
    /\ tasks[1].sid \notin workspace
    /\ ~ Busy(tasks[1].sid)

(* C11: a busy marker blocks teardown under every interleaving: no step    *)
(* (of end_session, of get_session on an expired session, of the deferred  *)
(* thread) deletes the workspace of a session whose busy-set is non-empty  *)
(* at that moment, also when mark_file_processing runs between the check   *)
(* and the deletion of the deferred thread.                                *)
C11_Step ==
    \A sid \in workspace : sid \notin workspace' => ~ Busy(sid)

C11_BusyBlocksTeardown == [][C11_Step]_vars

(* C20: a create_session that succeeds does all of this in one step: the   *)
(* id is fresh (never a session before, no entry, no directory, no record  *)
(* under it), the session is INITIAL, the id is a key of active_sessions   *)
(* and of session_data, the directory exists, the record of the session is *)
(* on disk, nothing of any other session changes, and a get_session made   *)
(* right after it returns that session, in state INITIAL.                  *)
C20_Step ==
    (Returns("create") /\ last'.ret = "ok") =>
        LET sid == last'.sid
        IN  /\ sid \notin DOMAIN sess
            /\ sid \notin active_sessions \cup DOMAIN session_data \cup workspace
            /\ sid \notin DOMAIN metadata
            /\ sid \in DOMAIN sess' /\ sess'[sid].state = "INITIAL"
            /\ active_sessions' = active_sessions \cup {sid}
            /\ DOMAIN session_data' = DOMAIN session_data \cup {sid}
            /\ workspace' = workspace \cup {sid}
            /\ metadata' = (sid :> to_dict(sess'[sid])) @@ metadata
            /\ \A o \in DOMAIN sess : sess'[o] = sess[o]
            /\ sid \in active_sessions' /\ ~ is_expired(sess'[sid], now')

C20_CreateEstablishesAll == [][C20_Step]_vars

\* create_session has just returned the second session, and get_session
\* finds it in state INITIAL
C20_Witness ==
    /\ last = Result("create", 2, "ok", "-")
    /\ get_session_outcome(2) = "session"
    /\ sess[2].state = "INITIAL"
    /\ 2 \in active_sessions \cap DOMAIN session_data \cap workspace
    /\ metadata[2] = to_dict(sess[2])

(* C19: in every reachable state every session has expires_at strictly    *)
(* greater than created_at: when it is built with any session timeout and  *)
(* after extend_expiration with any additional_hours.                      *)
C19_ExpiresAfterCreated ==
    \A sid \in DOMAIN sess : sess[sid].expires_at > sess[sid].created_at

----------------------------------------------------------------------------
(* Vocabulary of the file properties *)

\* a call of save_large_file by thread t ends in this step, by an exception
\* or by returning the path
SaveRaises(t) == io'[t] # io[t] /\ io'[t].op = "save" /\ io'[t].pc = "raised"
SaveReturns(t) == io'[t] # io[t] /\ io'[t].op = "save" /\ io'[t].pc = "returned"

\* the destination of the call that ends in this step
Dest(t) == <<io'[t].sid, io'[t].ftype, io'[t].name>>

\* the call that ends in this step was refused by the quota check of line
\* 174, before anything was written
Refused(t) == io[t].pc \in IoFree

\* the bytes of the uploaded files of a session
Usage(fs, sid) == tree_size(fs, {p \in DOMAIN fs : p[1] = sid})

(* C12, as claimed: when save_large_file of a stream longer than the       *)
(* per-session ceiling has failed, the destination path does not exist.    *)
C12_ClaimedStep ==
    \A t \in IoThreads :
        (SaveRaises(t) /\ io'[t].size > MAX_SESSION_STORAGE) =>
            Dest(t) \notin DOMAIN files'

C12_NoFileAfterOversized == [][C12_ClaimedStep]_vars

(* C12, amended: save_large_file of a stream longer than the per-session   *)
(* ceiling leaves no partial file: when the call has passed the quota      *)
(* check and has failed, the destination path does not exist; when the     *)
(* call was refused by the quota check, before writing, no file has been   *)
(* touched and the destination is what it was.                             *)
C12_AmendedStep ==
    \A t \in IoThreads :
        (SaveRaises(t) /\ io'[t].size > MAX_SESSION_STORAGE) =>
            IF Refused(t) THEN files' = files
            ELSE Dest(t) \notin DOMAIN files'

C12_NoPartialFile == [][C12_AmendedStep]_vars

\* a stream of more than the ceiling was cut in the middle and the call has
\* failed: nothing is left at its destination
C12_Witness ==
    /\ io[1].pc = "raised" /\ io[1].op = "save"
    /\ io[1].size > MAX_SESSION_STORAGE
    /\ io[1].exc = "StorageQuotaExceededError"
    /\ <<io[1].sid, io[1].ftype, io[1].name>> \notin DOMAIN files

(* C13: when save_large_file is cut because the bytes written have passed  *)
(* the per-session ceiling, the caller receives StorageQuotaExceededError, *)
(* not the generic storage error.                                          *)
C13_Step ==
    \A t \in IoThreads :
        (SaveRaises(t) /\ io[t].pc = "except"
                       /\ io[t].exc = "StorageQuotaExceededError") =>
            io'[t].err = "StorageQuotaExceededError"

C13_MidStreamIsQuotaError == [][C13_Step]_vars

(* C14: the per-session quota is cumulative: after any save_large_file     *)
(* that has completed, the files of the session hold no more than the      *)
(* per-session ceiling (a call that would take them past it fails).        *)
C14_Step ==
    \A t \in IoThreads :
        SaveReturns(t) => Usage(files', io'[t].sid) <= MAX_SESSION_STORAGE

C14_UsageWithinCeiling == [][C14_Step]_vars

(* C15: a save_large_file that fails is rolled back: in each of its steps  *)
(* no other path changes, and when it has failed the destination holds     *)
(* what it held when the call began (also a file of an earlier save).      *)
C15_Step ==
    \A t \in IoThreads :
        SaveRaises(t) =>
            /\ Content(files', Dest(t)) =
                  (IF Refused(t) THEN Content(files, Dest(t)) ELSE io[t].had)
            /\ \A p \in (DOMAIN files \cup DOMAIN files') \ {Dest(t)} :
                  Content(files', p) = Content(files, p)

C15_FailedSaveRolledBack == [][C15_Step]_vars

(* C16: two save_large_file calls to one destination are serialized: once  *)
(* every caller has finished and at least one has succeeded, the file      *)
(* exists and holds the whole stream of one writer that succeeded.         *)
EndedSave(t, p) ==
    /\ io[t].op = "save" /\ io[t].pc \in {"returned", "raised"}
    /\ <<io[t].sid, io[t].ftype, io[t].name>> = p

C16_OneWholeStream ==
    \A sid \in SessionIds, ftype \in FileTypes, name \in Names :
        LET p == <<sid, ftype, name>>
        IN  ((\A t \in IoThreads : EndedSave(t, p))
                /\ (\E t \in IoThreads : io[t].pc = "returned")) =>
            /\ p \in DOMAIN files
            /\ files[p].len = files[p].total
            /\ io[files[p].by].pc = "returned"

(* C17: when the lock is not obtained within the timeout, save_large_file  *)
(* and get_file_stream raise FileLockTimeoutError and neither write nor    *)
(* unlink anything.                                                        *)
TimedOut(t) ==
    \/ io[t].pc = "except" /\ io[t].exc = "Timeout" /\ io'[t].pc = "raised"
    \/ io[t].pc = "rlock" /\ io'[t].pc = "raised"

C17_Step ==
    \A t \in IoThreads :
        TimedOut(t) => io'[t].err = "FileLockTimeoutError" /\ files' = files

C17_TimeoutIsLockTimeout == [][C17_Step]_vars

(* C18: a file lock is held only by a thread that is inside the with block *)
(* of save_large_file or get_file_stream on that file: once a save has     *)
(* returned or raised, and once a read is exhausted or has failed, the     *)
(* thread holds no lock, so nobody waits for a call that has finished.     *)
C18_LockHeldOnlyInside ==
    \A key \in DOMAIN locks :
        /\ io[locks[key]].pc \in {"open", "write", "ropen", "read"}
        /\ LockKey(locks[key]) = key

\* thread 1 has finished a save, thread 2 has finished a read of the same
\* file after it, and the lock of the file is free again
C18_Witness ==
    /\ io[1].pc = "returned" /\ io[1].op = "save"
    /\ io[2].pc = "returned" /\ io[2].op = "read"
    /\ LockKey(1) = LockKey(2)
    /\ LockKey(1) \notin DOMAIN locks

----------------------------------------------------------------------------
(* C21: end_session on an id that is not a key of active_sessions (never   *)
(* created, or already ended) fails with SessionNotFoundError instead of   *)
(* reporting success, and changes none of active_sessions, session_data,   *)
(* processing_files.                                                       *)
C21_Step ==
    (Returns("end") /\ last'.sid \notin active_sessions) =>
        /\ last'.ret = "SessionNotFoundError"
        /\ UNCHANGED <<active_sessions, session_data, processing_files>>

C21_EndOfUnknownFails == [][C21_Step]_vars

----------------------------------------------------------------------------
(* C24: each end_session call on a busy session starts exactly one         *)
(* deferred thread, and the thread checks once, without retry: when its    *)
(* sleep ends it goes on to delete the workspace iff the busy-set is empty *)
(* at that moment, and then it does delete it; when the busy-set is        *)
(* non-empty the thread is over, and it takes no further step and deletes  *)
(* nothing, also when the busy-set becomes empty afterwards.               *)
C24_Step ==
    /\ (Returns("end") /\ Busy(last'.sid)) => Len(tasks') = Len(tasks) + 1
    /\ \A i \in DOMAIN tasks :
          /\ tasks'[i].sid = tasks[i].sid
          /\ tasks'[i].pc # tasks[i].pc =>
                \/ /\ tasks[i].pc = "sleep"
                   /\ tasks'[i].pc = IF Busy(tasks[i].sid) THEN "abandoned" ELSE "delete"
                   /\ workspace' = workspace
                \/ /\ tasks[i].pc = "delete"
                   /\ tasks'[i].pc = "done"
                   /\ tasks[i].sid \notin workspace'

Finished(i) == i \in DOMAIN tasks /\ tasks[i].pc = "done"

C24_OneCheckNoRetry ==
    /\ [][C24_Step]_vars
    /\ \A i \in 1 .. MaxTasks : CheckPassed(i) ~> Finished(i)

\* the thread gave up, the busy-set became empty later, and the workspace
\* is still there
C24_Witness ==
    /\ tasks # <<>>
    /\ tasks[1].pc = "abandoned"
    /\ ~ Busy(tasks[1].sid)
    /\ tasks[1].sid \in workspace

----------------------------------------------------------------------------
(* C30: after any sequence of create_session, get_session,                 *)
(* get_session_data, update_session_state and end_session calls, with ids  *)
(* that are known or unknown, the keys of session_data are the keys of     *)
(* active_sessions.                                                        *)
C30_DataKeysAreSessionKeys == DOMAIN session_data = active_sessions

----------------------------------------------------------------------------
\* a call of check_storage_quota by thread t returns in this step
QuotaReturns(t) == reg'[t] # reg[t] /\ reg'[t].op = "check_storage_quota"

\* the bytes below the storage root: the uploaded files and the records
TotalUsage(fs, md) ==
    tree_size(fs, DOMAIN fs) + SESSION_JSON_SIZE * Cardinality(DOMAIN md)

(* C28: check_storage_quota(session, n) returns False whenever the usage   *)
(* of the session plus n exceeds 100 MiB; otherwise it returns True iff    *)
(* the usage of the whole store, as it is after the call, plus n is at     *)
(* most 1 GiB.  A usage equal to a ceiling is accepted.  When the store    *)
(* would not overflow, the call changes no entry of the registry.          *)
C28_Step ==
    \A t \in Threads :
        QuotaReturns(t) =>
            LET sid == reg'[t].sid
                n == reg'[t].arg
            IN  /\ get_session_storage_size(sid) + n > 100 * 1024 * 1024
                      => reg'[t].ret = "False"
                /\ get_session_storage_size(sid) + n <= 100 * 1024 * 1024
                      => (reg'[t].ret = "True"
                             <=> TotalUsage(files', metadata') + n <= 1024 * 1024 * 1024)
                /\ get_total_storage_size + n <= 1024 * 1024 * 1024
                      => UNCHANGED <<sess, active_sessions, session_data,
                                     processing_files>>

C28_QuotaDecision == [][C28_Step]_vars

\* a call was answered True for a size that fills the store exactly to its
\* ceiling and leaves the session below its own
C28_Witness ==
    /\ reg[1].op = "check_storage_quota"
    /\ reg[1].ret = "True"
    /\ reg[1].arg > 0
    /\ get_session_storage_size(reg[1].sid) + reg[1].arg < MAX_SESSION_STORAGE
    /\ get_total_storage_size + reg[1].arg = MAX_TOTAL_STORAGE

----------------------------------------------------------------------------
\* the sessions that a reclamation on behalf of session sid may evict: held,
\* older than sid, and with an empty busy-set
Evictable(sid) ==
    {s \in active_sessions :
        sess[s].created_at < sess[sid].created_at /\ ~ Busy(s)}

\* the bytes below the directories of the sessions of S
UsageOf(S) ==
    tree_size(files, {p \in DOMAIN files : p[1] \in S})
    + SESSION_JSON_SIZE * Cardinality(S \cap DOMAIN metadata)

(* C29: when a write that fits the session would take the store over its   *)
(* ceiling, check_storage_quota evicts older sessions with an empty        *)
(* busy-set and measures again: if the space held by those sessions is     *)
(* enough for the write, the call returns True and the store has room for  *)
(* the write afterwards.  A session with a non-empty busy-set is never     *)
(* evicted by the call.                                                    *)
C29_Step ==
    \A t \in Threads :
        QuotaReturns(t) =>
            LET sid == reg'[t].sid
                n == reg'[t].arg
            IN  /\ ( /\ get_session_storage_size(sid) + n <= MAX_SESSION_STORAGE
                     /\ get_total_storage_size + n > MAX_TOTAL_STORAGE
                     /\ get_total_storage_size - UsageOf(Evictable(sid)) + n
                           <= MAX_TOTAL_STORAGE )
                      => /\ reg'[t].ret = "True"
                         /\ TotalUsage(files', metadata') + n <= MAX_TOTAL_STORAGE
                /\ \A s \in active_sessions :
                      Busy(s) => s \in active_sessions' /\ s \in workspace'

C29_ReclaimsOldestEligible == [][C29_Step]_vars

----------------------------------------------------------------------------
(* C25: in every interleaving of one reader and one writer of the same     *)
(* file, what get_file_stream has opened and yields chunk by chunk is the  *)
(* whole content that a finished write left, never the first part of a     *)
(* stream whose save_large_file call is still going on.                    *)
C25_ReaderSeesWholeFile ==
    (io[Reader].op = "read" /\ io[Reader].pc = "read") =>
        io[Reader].had.len = io[Reader].had.total

----------------------------------------------------------------------------
\* thread t waits for a file lock that thread u holds
WaitsFor(t, u) ==
    /\ io[t].pc \in {"lock", "rlock"}
    /\ LockKey(t) \in DOMAIN locks
    /\ locks[LockKey(t)] = u

(* C26, as claimed: file locks are keyed per file: a save_large_file or    *)
(* get_file_stream call never waits for (and so never times out on) a lock *)
(* held by a call on a different path of the same session, also when the   *)
(* two paths are in different category directories and share the file      *)
(* name.                                                                   *)
C26_LockPerPath ==
    \A t \in IoThreads, u \in IoThreads :
        (t # u /\ WaitsFor(t, u)) => FilePath(t) = FilePath(u)

(* C26, amended: file locks are keyed by session and file name: a call     *)
(* waits only for a lock held by a call on a path of the same session with *)
(* the same file name, so calls on files with different names never        *)
(* contend.                                                                *)
C26_LockPerName ==
    \A t \in IoThreads, u \in IoThreads :
        (t # u /\ WaitsFor(t, u)) =>
            io[t].sid = io[u].sid /\ io[t].name = io[u].name

\* two threads write two files with different names at the same time, each
\* holding the lock of its own file
C26_Witness ==
    /\ io[1].pc = "write" /\ io[2].pc = "write"
    /\ io[1].sid = io[2].sid /\ io[1].name # io[2].name
    /\ LockKey(1) \in DOMAIN locks /\ locks[LockKey(1)] = 1
    /\ LockKey(2) \in DOMAIN locks /\ locks[LockKey(2)] = 2

----------------------------------------------------------------------------
\* thread t is making a filesystem call: directory creation, metadata
\* write, look-up of a stored record, recursive deletion
InFilesystemCall(t) == reg[t].pc \in {"mkdir", "save", "load", "rmtree"}

(* C27: session_lock is held only around the mutation of the in-memory     *)
(* maps: in no reachable state does a thread that is making a filesystem   *)
(* call (workspace directory creation, metadata write, recursive workspace *)
(* deletion) hold session_lock.                                            *)
C27_NoFilesystemCallUnderLock ==
    \A t \in Threads : InFilesystemCall(t) => session_lock.owner # t

----------------------------------------------------------------------------
\* the router answers an upload: the step that ends upload_audio
UploadAnswered == api.pc = "read" /\ api'.pc = "idle" /\ api'.op = "upload_audio"

\* C22: whenever upload_audio reports success with session_state
\* AUDIO_UPLOADED, the state of that session in the registry is
\* AUDIO_UPLOADED, whatever state the session was in before the upload.
C22_Step ==
    (UploadAnswered /\ api'.code = 201 /\ api'.session_state = "AUDIO_UPLOADED")
        => /\ api'.sid \in active_sessions'
           /\ sess'[api'.sid].state = "AUDIO_UPLOADED"

C22_UploadSuccessMeansAudioUploaded == [][C22_Step]_vars

\* the router answers a request to start processing
StartAnswered ==
    api.pc = "idle" /\ api'.pc = "idle" /\ api' # api /\ api'.op = "start_processing"

\* C23: start_processing on a held session that has not expired is accepted
\* iff the session state is AUDIO_UPLOADED or CONTENT_ADDED, and then the
\* state becomes PROCESSING and a task with a new id is started; in every
\* other state it is answered with 409 (conflict) and the session and the
\* ProcessingStatus of every session stay as they were.
C23_Step ==
    (StartAnswered /\ get_session_outcome(api'.sid) = "session")
        => LET sid == api'.sid
           IN  IF sess[sid].state \in {"AUDIO_UPLOADED", "CONTENT_ADDED"}
               THEN /\ api'.code = 202
                    /\ sess'[sid].state = "PROCESSING"
                    /\ api'.task_id = task_ids + 1
                    /\ task_ids' = task_ids + 1
                    /\ session_data'[sid].processing_status.task_id = api'.task_id
               ELSE /\ api'.code = 409
                    /\ sess' = sess
                    /\ session_data' = session_data

C23_StartOnlyWhenReady == [][C23_Step]_vars

----------------------------------------------------------------------------
\* the ProcessingStatus objects that exist
Statuses == {sid \in DOMAIN session_data : has_status(session_data[sid])}
StatusOf(sid) == session_data[sid].processing_status

\* C31: for every ProcessingStatus reached by any sequence of
\* update_progress, mark_error and mark_processing calls, a call
\* update_progress(p) with p >= 100 leaves status = completed, and whenever
\* the status is completed the stored progress is 100.
C31_CompletedMeansFull ==
    \A sid \in Statuses :
        /\ \A p \in ProgressArgs :
              p >= 100 =>
                 ProcessingStatus_update_progress(StatusOf(sid), p, now).status = "completed"
        /\ StatusOf(sid).status = "completed" => StatusOf(sid).progress = 100

\* C32: once a ProcessingStatus is completed or error, no later call on the
\* same instance changes processing_time_seconds or replaces the status it
\* reached.
C32_Step ==
    \A sid \in Statuses :
        (/\ StatusOf(sid).status \in {"completed", "error"}
         /\ sid \in DOMAIN session_data'
         /\ session_data'[sid].processing_status.task_id = StatusOf(sid).task_id)
            => /\ session_data'[sid].processing_status.processing_time_seconds
                     = StatusOf(sid).processing_time_seconds
               /\ session_data'[sid].processing_status.status = StatusOf(sid).status

C32_TimeFrozen == [][C32_Step]_vars

\* C33: in every reachable state, whatever integer was passed to
\* update_progress and after start_processing, complete_processing and
\* fail_processing, SessionData.progress_percentage and
\* ProcessingStatus.progress lie in 0..100.
C33_ProgressInRange ==
    \A sid \in DOMAIN session_data :
        /\ session_data[sid].progress_percentage \in 0 .. 100
        /\ session_data[sid].processing_status.progress \in 0 .. 100

\* the status was driven to 100 on its own after the overall progress had
\* been set to its lower end
C33_Witness ==
    \E sid \in Statuses :
        /\ StatusOf(sid).progress = 100
        /\ session_data[sid].progress_percentage = 0
        /\ StatusOf(sid).status = "error"

----------------------------------------------------------------------------
\* the held sessions whose expires_at has not passed
Unexpired == {sid \in active_sessions : ~ is_expired(sess[sid], now)}

\* C34: create_session fails with ConcurrencyLimitError only if at least 5
\* sessions whose expires_at has not passed are held; expired sessions that
\* have not been accessed since do not count toward the cap.
C34_Step ==
    (Returns("create") /\ last'.ret = "ConcurrencyLimitError")
        => Cardinality(Unexpired) >= MAX_CONCURRENT_SESSIONS

C34_ExpiredNeverBlocksCreate == [][C34_Step]_vars

----------------------------------------------------------------------------
\* extend_expiration is called on the session in this step with a positive
\* additional_hours: the call stamps last_updated with the time of the call
\* and counts the new deadline from it
ExtendedByPositive(sid) ==
    /\ sid \in DOMAIN sess
    /\ sess'[sid] # sess[sid]
    /\ sess'[sid].state = sess[sid].state
    /\ sess'[sid].last_updated = now
    /\ sess'[sid].expires_at > now

\* C38: for every session and every positive additional_hours, expires_at
\* after extend_expiration is greater than or equal to expires_at before it.
C38_Step ==
    \A sid \in DOMAIN sess :
        ExtendedByPositive(sid) => sess'[sid].expires_at >= sess[sid].expires_at

C38_ExtendNeverShortens == [][C38_Step]_vars

----------------------------------------------------------------------------
\* the recordings under files/audio/original of a session
Recordings(fs, sid) == {p \in DOMAIN fs : p[1] = sid /\ p[2] = "audio/original"}

\* C40: when upload_audio answers an upload with a client error for its
\* size or its format (413 or 400), the request has written no file under
\* files/audio/original of the session and the session is as it was.
C40_Step ==
    (UploadAnswered /\ api'.code \in {400, 413})
        => /\ Recordings(files', api'.sid) = Recordings(files, api'.sid)
           /\ \A p \in Recordings(files, api'.sid) : files'[p] = files[p]
           /\ sess' = sess

C40_RejectedUploadWritesNothing == [][C40_Step]_vars

----------------------------------------------------------------------------
\* C35: in every reachable state the workspace directory of each id in
\* active_sessions exists; the deferred clean-up thread never deletes the
\* workspace of a session that is still in active_sessions.
C35_HeldSessionHasWorkspace == active_sessions \subseteq workspace

----------------------------------------------------------------------------
\* C36: in every reachable state a workspace directory exists only for the
\* ids in active_sessions, and no file lies under the directory of an id
\* that is not in active_sessions: once end_session has removed a session
\* and its subtree, no update_session_state, save_large_file or
\* create_workspace call re-creates the directory or writes under it.
C36_NoOrphanWorkspace ==
    /\ workspace \subseteq active_sessions
    /\ \A p \in DOMAIN files : p[1] \in active_sessions

\* a transfer of thread t is inside the with block of its file lock
InTransfer(t) == io[t].pc \in {"open", "write", "ropen", "read"}

\* C37: no step deletes the workspace subtree of a session while a
\* save_large_file or get_file_stream on a file of that session is inside
\* the with block of its file lock: the transfer finishes against the
\* workspace it started in.
C37_Step ==
    \A t \in IoThreads :
        (InTransfer(t) /\ io[t].sid \in workspace) => io[t].sid \in workspace'

C37_NoTeardownDuringTransfer == [][C37_Step]_vars

----------------------------------------------------------------------------
\* the owner of session_lock is in no call on a file: it holds no file lock
\* and waits for none
OwnerOutOfFiles == \A t \in CoreThreads : session_lock.owner = t => OutOfFiles(t)

====
